---- MODULE Spec2Model ----
(***************************************************************************)
(* Frame lifecycle and GPU resource lifetime of the Vulkan context:        *)
(* VulkanContext (drivers/vulkan/vulkan_context.cpp) driven by             *)
(* DisplayServer::run (servers/display_server.cpp).                        *)
(*                                                                         *)
(* One CPU thread walks through initVulkan, the display loop, drawFrame,   *)
(* recreateSwapchain and cleanup; its position is pc.  The GPU completes   *)
(* submitted work asynchronously (GpuComplete) and the window system posts *)
(* events and changes the drawable size (QuitEvent, WindowEvent).          *)
(***************************************************************************)
EXTENDS Integers, Sequences, FiniteSets, TLC

\* ------------------------------------------------------------------------
\* Program constants
\* ------------------------------------------------------------------------
MAX_FRAMES_IN_FLIGHT == 2
\* std::numeric_limits<uint32_t>::max() at the word width of the model (16 bits:
\* TLC's integers are 32-bit)
UintMax == 65535

Slots == 0 .. (MAX_FRAMES_IN_FLIGHT - 1)

\* ------------------------------------------------------------------------
\* Bounds of the model
\* ------------------------------------------------------------------------
\* events the window system posts in one run (each polled event draws a frame)
MaxEvents == 3
\* swapchains built in one run (the initial one and the recreations)
MaxBuilds == 2
\* length of the format list and of the present mode list a surface reports
MaxFormats == 3
MaxModes == 3
\* largest minImageCount / maxImageCount a surface reports
MaxImageCount == 4
\* memory types, queue families and physical devices a driver reports
MaxMemoryTypes == 3
MaxFamilies == 2
MaxDevices == 2

\* ------------------------------------------------------------------------
\* Values
\* ------------------------------------------------------------------------
VK_SUCCESS == "VK_SUCCESS"
VK_SUBOPTIMAL_KHR == "VK_SUBOPTIMAL_KHR"
VK_ERROR_OUT_OF_DATE_KHR == "VK_ERROR_OUT_OF_DATE_KHR"
\* stands for every other VkResult error code
VK_ERROR == "VK_ERROR"

AcquireResults == {VK_SUCCESS, VK_SUBOPTIMAL_KHR, VK_ERROR_OUT_OF_DATE_KHR, VK_ERROR}
PresentResults == {VK_SUCCESS, VK_SUBOPTIMAL_KHR, VK_ERROR_OUT_OF_DATE_KHR, VK_ERROR}

\* drawable sizes the window can have (0 in a dimension: minimized)
DrawableSizes == {<<800, 0>>, <<800, 600>>}
InitialDrawable == <<800, 600>>

\* a handle is <<kind, build, index>>; build 0 is the part of the context that
\* is created once by initVulkan
H(kind, build, idx) == <<kind, build, idx>>
NullHandle == <<"VK_NULL_HANDLE", 0, 0>>
NoImage == -1
\* no helper function has been called
NoCall == [fn |-> "none"]

VARIABLES
    \* --- CPU thread
    pc,                     \* position of the CPU thread
    caller,                 \* which of initVulkan / recreateSwapchain / cleanup runs the shared helpers
    ret,                    \* call site of recreateSwapchain in drawFrame
    fatal,                  \* message thrown by Debugger::consoleMessage(msg, true)
    \* --- DisplayServer::run
    bQuit,
    \* --- VulkanContext fields
    swapchain, swapchainImages, swapchainExtent,
    swapchainImageViews, swapchainFramebuffers,
    colorImage, colorImageMemory, colorImageView,
    depthImage, depthImageMemory, depthImageView,
    commandBuffers,         \* state of each slot's command buffer
    inFlightFences,         \* TRUE: signaled
    currentFrame, framebufferResized,
    \* --- locals of drawFrame and recreateSwapchain
    imageIndex, result, width, height,
    \* --- driver and GPU
    builds,                 \* swapchains created so far
    queriedImageCount,      \* count last returned by vkGetSwapchainImagesKHR
    created, destroyed,     \* handles created / destroyed so far
    createCalls, destroyCalls, doubleFree,
    fbAttachments,          \* framebuffer -> its attachment views
    cmdFramebuffer,         \* the framebuffer recorded into each slot's command buffer
    pending,                \* submissions the GPU has not completed
    \* --- window system
    drawable, events, posted,
    \* --- history of the current drawFrame call
    frameLog, slotAtEntry,
    \* --- formats
    swapchainImageFormat,   \* VulkanContext::swapchainImageFormat
    renderPassFormat,       \* format of the color attachments the render pass was created with
    surfaceFormats,         \* the list vkGetPhysicalDeviceSurfaceFormatsKHR reports
    \* --- the last call of one of the helper functions, with its arguments and result
    lastCall,
    \* --- loading of textures and buffers in initVulkan
    job,                    \* index in Jobs of the function running
    step, sub,              \* position in the function, and in its one-shot command sequence
    loadFatal,              \* message thrown while loading
    resources,              \* every buffer and image created, with its memory
    reads,                  \* what the GPU was asked to read, as it was at the submit
    oneShot,                \* the command buffer of beginSingleTimeCommands
    cmdReads, cmdWrites,    \* resources its commands read and write
    queueBusy,              \* the graphics queue has not completed the one-shot submission
    loadLog,                \* calls made by the function running
    textureWidth, textureHeight,    \* texWidth, texHeight of createTextureImage
    mipLevels,
    mipLayout,              \* layout of each level of the texture image, in command order
    mipI, mipWidth, mipHeight,      \* i, mipWidth, mipHeight of generateMipmaps
    blits,                  \* the vkCmdBlitImage commands of generateMipmaps
    mipBarriers,            \* the barriers of generateMipmaps
    uniformIndex,           \* i of createUniformBuffers
    frameSlot,              \* currentFrame of the frames drawn with the loaded resources
    \* --- semaphores, and what the current drawFrame call passed to the driver
    imageAvailableSemaphores,   \* TRUE: a signal was requested and no wait has consumed it
    renderFinishedSemaphores,
    acquiredFrom,           \* the swapchain vkAcquireNextImageKHR was called with
    submitInfo,             \* the VkSubmitInfo and fence of the call's vkQueueSubmit
    presentInfo,            \* the VkPresentInfoKHR of the call's vkQueuePresentKHR
    uniformWrites           \* slots whose uniform buffers the call has written

cpuVars == <<pc, caller, ret, fatal, bQuit>>
scVars == <<swapchain, swapchainImages, swapchainExtent, swapchainImageViews,
            swapchainFramebuffers, colorImage, colorImageMemory, colorImageView,
            depthImage, depthImageMemory, depthImageView>>
frameVars == <<commandBuffers, inFlightFences, currentFrame, framebufferResized>>
localVars == <<imageIndex, result, width, height>>
objVars == <<builds, queriedImageCount, created, destroyed, createCalls,
             destroyCalls, doubleFree, fbAttachments>>
gpuVars == <<cmdFramebuffer, pending>>
winVars == <<drawable, events, posted>>
histVars == <<frameLog, slotAtEntry>>
syncVars == <<imageAvailableSemaphores, renderFinishedSemaphores, acquiredFrom,
              submitInfo, presentInfo, uniformWrites>>

fmtVars == <<swapchainImageFormat, renderPassFormat, surfaceFormats>>

\* the state DisplayServer::run works on
runVars == <<cpuVars, scVars, frameVars, localVars, objVars, gpuVars, winVars, histVars,
             fmtVars, syncVars>>

progVars == <<job, step, sub, loadFatal>>
resVars == <<resources, reads>>
cmdVars == <<oneShot, cmdReads, cmdWrites, queueBusy>>
texVars == <<textureWidth, textureHeight, mipLevels>>
mipVars == <<mipLayout, mipI, mipWidth, mipHeight, blits, mipBarriers>>
loopVars == <<uniformIndex, frameSlot>>

\* the state the loading functions work on
loadVars == <<progVars, resVars, cmdVars, texVars, mipVars, loopVars, loadLog>>

vars == <<runVars, lastCall, loadVars>>

\* ------------------------------------------------------------------------
\* Helpers
\* ------------------------------------------------------------------------
Range(s) == {s[i] : i \in 1 .. Len(s)}

Max(a, b) == IF a > b THEN a ELSE b

\* sequences over S of length lo .. hi
SeqsOf(S, lo, hi) == UNION {[1 .. k -> S] : k \in lo .. hi}

\* std::clamp(v, lo, hi)
Clamp(v, lo, hi) == IF v < lo THEN lo ELSE IF hi < v THEN hi ELSE v

\* Debugger::consoleMessage(message, true): throws; nothing catches it
Throw(message) ==
    /\ fatal' = message
    /\ pc' = "aborted"

\* handles live on the device
Live == created \ destroyed

\* change of pc without a throw
Goto(p) == /\ pc' = p
           /\ fatal' = fatal

\* bookkeeping of vkCreate*/vkAllocate* and vkDestroy*/vkFree* calls
Track(made, killed) ==
    /\ created' = created \cup made
    /\ createCalls' = createCalls + Cardinality(made)
    /\ destroyed' = destroyed \cup killed
    /\ destroyCalls' = destroyCalls + Cardinality(killed)
    /\ doubleFree' = (doubleFree \/ (killed \cap destroyed) # {} \/ ~(killed \subseteq created))

NoTrack == UNCHANGED <<created, createCalls, destroyed, destroyCalls, doubleFree>>

Log(call, res) == frameLog' = Append(frameLog, <<call, res>>)

\* ------------------------------------------------------------------------
\* Objects initVulkan creates once and cleanup destroys
\* ------------------------------------------------------------------------
DeviceObjects ==
    {H("instance", 0, 0), H("debugMessenger", 0, 0), H("surface", 0, 0), H("device", 0, 0)}

PipelineObjects ==
    {H("renderPass", 0, 0), H("descriptorSetLayout", 0, 0), H("pipelineLayout", 0, 0),
     H("graphicsPipeline", 0, 0), H("commandPool", 0, 0)}

ResourceObjects ==
    {H(k, 0, m) : k \in {"textureImage", "textureImageMemory", "textureImageView",
                         "textureSampler", "vertexBuffer", "vertexBufferMemory",
                         "indexBuffer", "indexBufferMemory"}, m \in 1 .. 2}
    \cup {H(k, 0, s) : k \in {"uniformBuffers", "uniformBuffersMemory",
                              "uniformBuffers2", "uniformBuffersMemory2"}, s \in Slots}
    \cup {H("descriptorPool", 0, 0)}

SyncObjects ==
    {H(k, 0, s) : k \in {"imageAvailableSemaphores", "renderFinishedSemaphores",
                         "inFlightFences"}, s \in Slots}

\* ------------------------------------------------------------------------
\* Surface capabilities reported by querySwapchainSupport
\* ------------------------------------------------------------------------
SurfaceCapabilities ==
    [currentExtent : {<<UintMax, UintMax>>, drawable},
     minImageExtent : {<<1, 1>>},
     maxImageExtent : {<<1024, 768>>},
     minImageCount : {1},
     maxImageCount : {0}]

\* variant of chooseSwapExtent: the drawable size is clamped whatever
\* currentExtent is
chooseSwapExtentAlwaysClamped(capabilities, w, h) ==
    <<Clamp(w % (UintMax + 1), capabilities.minImageExtent[1],
            capabilities.maxImageExtent[1]),
      Clamp(h % (UintMax + 1), capabilities.minImageExtent[2],
            capabilities.maxImageExtent[2])>>

\* variant of chooseSwapExtent: a concrete currentExtent is clamped to the
\* range as well
chooseSwapExtentClampedCurrent(capabilities, w, h) ==
    IF capabilities.currentExtent[1] # UintMax
    THEN <<Clamp(capabilities.currentExtent[1], capabilities.minImageExtent[1],
                 capabilities.maxImageExtent[1]),
           Clamp(capabilities.currentExtent[2], capabilities.minImageExtent[2],
                 capabilities.maxImageExtent[2])>>
    ELSE <<Clamp(w % (UintMax + 1), capabilities.minImageExtent[1],
                 capabilities.maxImageExtent[1]),
           Clamp(h % (UintMax + 1), capabilities.minImageExtent[2],
                 capabilities.maxImageExtent[2])>>

\* VulkanContext::chooseSwapExtent; w, h: SDL_Vulkan_GetDrawableSize
chooseSwapExtent(capabilities, w, h) ==
    IF capabilities.currentExtent[1] # UintMax
    THEN capabilities.currentExtent
    ELSE <<Clamp(w % (UintMax + 1), capabilities.minImageExtent[1],
                 capabilities.maxImageExtent[1]),
           Clamp(h % (UintMax + 1), capabilities.minImageExtent[2],
                 capabilities.maxImageExtent[2])>>

\* variant of RequestedImageCount: maxImageCount = 0 is taken as a maximum
RequestedImageCountAlwaysCapped(capabilities) ==
    LET imageCount == (capabilities.minImageCount + 1) % (UintMax + 1)
    IN IF imageCount > capabilities.maxImageCount
       THEN capabilities.maxImageCount
       ELSE imageCount

\* imageCount of createSwapchain
RequestedImageCount(capabilities) ==
    LET imageCount == (capabilities.minImageCount + 1) % (UintMax + 1)
    IN IF capabilities.maxImageCount > 0 /\ imageCount > capabilities.maxImageCount
       THEN capabilities.maxImageCount
       ELSE imageCount

\* ------------------------------------------------------------------------
\* Surface formats and present modes
\* ------------------------------------------------------------------------
\* a VkSurfaceFormatKHR is <<format, colorSpace>>
PreferredFormat == <<"VK_FORMAT_B8G8R8A8_SRGB", "VK_COLOR_SPACE_SRGB_NONLINEAR_KHR">>

SurfaceFormats ==
    {"VK_FORMAT_B8G8R8A8_SRGB", "VK_FORMAT_R8G8B8A8_UNORM"}
    \X {"VK_COLOR_SPACE_SRGB_NONLINEAR_KHR", "VK_COLOR_SPACE_EXTENDED_SRGB_LINEAR_EXT"}

\* the list the surface reports when the device is picked
InitialSurfaceFormats == <<PreferredFormat>>

\* the loop of chooseSwapSurfaceFormat from index i on: the first element with
\* the preferred format and colour space, availableFormats[0] when the loop ends
RECURSIVE FirstPreferredFrom(_, _)
FirstPreferredFrom(availableFormats, i) ==
    IF i > Len(availableFormats) THEN availableFormats[1]
    ELSE IF availableFormats[i][1] = "VK_FORMAT_B8G8R8A8_SRGB"
            /\ availableFormats[i][2] = "VK_COLOR_SPACE_SRGB_NONLINEAR_KHR"
         THEN availableFormats[i]
         ELSE FirstPreferredFrom(availableFormats, i + 1)

\* variant of chooseSwapSurfaceFormat: the first format the surface lists
chooseFirstSurfaceFormat(availableFormats) == availableFormats[1]

\* VulkanContext::chooseSwapSurfaceFormat
chooseSwapSurfaceFormat(availableFormats) == FirstPreferredFrom(availableFormats, 1)

\* ------------------------------------------------------------------------
\* Initial state: the DisplayServer and its VulkanContext are constructed,
\* initSDL2 has created the 800x600 window
\* ------------------------------------------------------------------------
Init ==
    /\ pc = "initVulkan" /\ caller = "initVulkan" /\ ret = "none" /\ fatal = "none"
    /\ bQuit = FALSE
    /\ swapchain = NullHandle /\ swapchainImages = <<>> /\ swapchainExtent = <<0, 0>>
    /\ swapchainImageViews = <<>> /\ swapchainFramebuffers = <<>>
    /\ colorImage = NullHandle /\ colorImageMemory = NullHandle /\ colorImageView = NullHandle
    /\ depthImage = NullHandle /\ depthImageMemory = NullHandle /\ depthImageView = NullHandle
    /\ commandBuffers = [s \in Slots |-> "unallocated"]
    /\ inFlightFences = [s \in Slots |-> FALSE]
    /\ currentFrame = 0 /\ framebufferResized = FALSE
    /\ imageIndex = NoImage /\ result = VK_SUCCESS /\ width = 0 /\ height = 0
    /\ builds = 0 /\ queriedImageCount = 0
    /\ created = {} /\ destroyed = {} /\ createCalls = 0 /\ destroyCalls = 0
    /\ doubleFree = FALSE
    /\ fbAttachments = <<>>
    /\ cmdFramebuffer = [s \in Slots |-> NullHandle]
    /\ pending = {}
    /\ drawable = InitialDrawable /\ events = <<>> /\ posted = 0
    /\ frameLog = <<>> /\ slotAtEntry = 0
    /\ swapchainImageFormat = "VK_FORMAT_UNDEFINED" /\ renderPassFormat = "VK_FORMAT_UNDEFINED"
    /\ surfaceFormats = InitialSurfaceFormats
    /\ lastCall = NoCall
    /\ job = 1 /\ step = "stbi_load" /\ sub = "none" /\ loadFatal = "none"
    /\ resources = <<>> /\ reads = {}
    /\ oneShot = "none" /\ cmdReads = {} /\ cmdWrites = {} /\ queueBusy = FALSE
    /\ loadLog = <<>>
    /\ textureWidth = 0 /\ textureHeight = 0 /\ mipLevels = 0
    /\ mipLayout = <<>> /\ mipI = 0 /\ mipWidth = 0 /\ mipHeight = 0
    /\ blits = <<>> /\ mipBarriers = <<>>
    /\ uniformIndex = 0 /\ frameSlot = 0
    /\ imageAvailableSemaphores = [s \in Slots |-> FALSE]
    /\ renderFinishedSemaphores = [s \in Slots |-> FALSE]
    /\ acquiredFrom = NullHandle
    /\ submitInfo = <<>> /\ presentInfo = <<>>
    /\ uniformWrites = {}

\* ------------------------------------------------------------------------
\* initVulkan
\* ------------------------------------------------------------------------
\* createInstance, setupDebugMessenger, createSurface, pickPhysicalDevice,
\* createLogicalDevice
createLogicalDevice ==
    /\ pc = "initVulkan"
    /\ \E ok \in BOOLEAN :
         IF ok
         THEN /\ Track(DeviceObjects, {})
              /\ Goto("createSwapchain")
         ELSE /\ Throw("Failed to create logical device!")
              /\ NoTrack
    /\ UNCHANGED <<caller, ret, bQuit, scVars, frameVars, localVars, builds,
                   queriedImageCount, fbAttachments, gpuVars, winVars, histVars>>
    /\ UNCHANGED <<fmtVars, lastCall, loadVars, syncVars>>

\* VulkanContext::createSwapchain
createSwapchain ==
    /\ pc = "createSwapchain"
    /\ \E capabilities \in SurfaceCapabilities, ok \in BOOLEAN, extra \in 0 .. 1 :
         IF ok
         THEN LET extent == chooseSwapExtent(capabilities, drawable[1], drawable[2])
                  imageCount == RequestedImageCount(capabilities)
                  n == imageCount + extra
                  b == builds + 1
              IN /\ builds' = b
                 /\ swapchain' = H("swapchain", b, 0)
                 /\ Track({H("swapchain", b, 0)}, {})
                 /\ swapchainImages' = [i \in 1 .. n |-> H("swapchainImage", b, i)]
                 /\ queriedImageCount' = n
                 /\ swapchainImageFormat' = chooseSwapSurfaceFormat(surfaceFormats)[1]
                 /\ swapchainExtent' = extent
                 /\ Goto("createImageViews")
         ELSE /\ Throw("Failed to create swap chain!")
              /\ NoTrack
              /\ UNCHANGED <<builds, swapchain, swapchainImages, queriedImageCount,
                             swapchainImageFormat, swapchainExtent>>
    /\ UNCHANGED <<caller, ret, bQuit, swapchainImageViews, swapchainFramebuffers,
                   colorImage, colorImageMemory, colorImageView,
                   depthImage, depthImageMemory, depthImageView,
                   frameVars, localVars, fbAttachments, gpuVars, winVars, histVars>>
    /\ UNCHANGED <<renderPassFormat, surfaceFormats, lastCall, loadVars, syncVars>>

\* number of views createImageViews makes
ImageViewCount == Len(swapchainImages)

\* VulkanContext::createImageViews; k views are created before createImageView throws
createImageViews ==
    /\ pc = "createImageViews"
    /\ LET n == ImageViewCount
       IN \E k \in 0 .. n :
            /\ swapchainImageViews' =
                  [i \in 1 .. n |-> IF i <= k THEN H("swapchainImageView", builds, i)
                                    ELSE IF i <= Len(swapchainImageViews)
                                         THEN swapchainImageViews[i]
                                         ELSE NullHandle]
            /\ Track({H("swapchainImageView", builds, i) : i \in 1 .. k}, {})
            /\ IF k = n
               THEN Goto(IF caller = "initVulkan" THEN "createGraphicsPipeline"
                                                  ELSE "createColorResources")
               ELSE Throw("Failed to create texture image view!")
    /\ UNCHANGED <<caller, ret, bQuit, swapchain, swapchainImages, swapchainExtent,
                   swapchainFramebuffers,
                   colorImage, colorImageMemory, colorImageView,
                   depthImage, depthImageMemory, depthImageView,
                   frameVars, localVars, builds, queriedImageCount, fbAttachments,
                   gpuVars, winVars, histVars>>
    /\ UNCHANGED <<fmtVars, lastCall, loadVars, syncVars>>

\* createRenderPass, createDescriptorSetLayout, createGraphicsPipeline,
\* createCommandPool
createGraphicsPipeline ==
    /\ pc = "createGraphicsPipeline"
    /\ \E ok \in BOOLEAN :
         IF ok
         THEN /\ Track(PipelineObjects, {})
              /\ renderPassFormat' = swapchainImageFormat
              /\ Goto("createColorResources")
         ELSE /\ Throw("Failed to create graphics pipeline!")
              /\ NoTrack
              /\ UNCHANGED renderPassFormat
    /\ UNCHANGED <<caller, ret, bQuit, scVars, frameVars, localVars, builds,
                   queriedImageCount, fbAttachments, gpuVars, winVars, histVars>>
    /\ UNCHANGED <<swapchainImageFormat, surfaceFormats, lastCall, loadVars, syncVars>>

\* VulkanContext::createImage followed by createImageView, as
\* createColorResources and createDepthResources use them: the handles made
\* when the step failAt throws
ImageObjects(kind, failAt) ==
    CASE failAt = "vkCreateImage" -> {}
      [] failAt = "vkAllocateMemory" -> {H(kind, builds, 0)}
      [] failAt = "vkCreateImageView" -> {H(kind, builds, 0), H(kind \o "Memory", builds, 0)}
      [] OTHER -> {H(kind, builds, 0), H(kind \o "Memory", builds, 0),
                   H(kind \o "View", builds, 0)}

ImageFailure(failAt) ==
    CASE failAt = "vkCreateImage" -> "Failed to create texture image!"
      [] failAt = "vkAllocateMemory" -> "Failed to allocate texture image memory!"
      [] failAt = "findDepthFormat" -> "Failed to find supported format!"
      [] OTHER -> "Failed to create texture image view!"

\* VulkanContext::createColorResources
createColorResources ==
    /\ pc = "createColorResources"
    /\ \E failAt \in {"none", "vkCreateImage", "vkAllocateMemory", "vkCreateImageView"} :
         LET made == ImageObjects("colorImage", failAt)
         IN /\ Track(made, {})
            /\ colorImage' = IF H("colorImage", builds, 0) \in made
                             THEN H("colorImage", builds, 0) ELSE colorImage
            /\ colorImageMemory' = IF H("colorImageMemory", builds, 0) \in made
                                   THEN H("colorImageMemory", builds, 0) ELSE colorImageMemory
            /\ colorImageView' = IF H("colorImageView", builds, 0) \in made
                                 THEN H("colorImageView", builds, 0) ELSE colorImageView
            /\ IF failAt = "none" THEN Goto("createDepthResources")
                                  ELSE Throw(ImageFailure(failAt))
    /\ UNCHANGED <<caller, ret, bQuit, swapchain, swapchainImages, swapchainExtent,
                   swapchainImageViews, swapchainFramebuffers,
                   depthImage, depthImageMemory, depthImageView,
                   frameVars, localVars, builds, queriedImageCount, fbAttachments,
                   gpuVars, winVars, histVars>>
    /\ UNCHANGED <<fmtVars, lastCall, loadVars, syncVars>>

\* VulkanContext::createDepthResources
createDepthResources ==
    /\ pc = "createDepthResources"
    /\ \E failAt \in {"none", "findDepthFormat", "vkCreateImage", "vkAllocateMemory",
                      "vkCreateImageView"} :
         LET made == IF failAt = "findDepthFormat" THEN {}
                     ELSE ImageObjects("depthImage", failAt)
         IN /\ Track(made, {})
            /\ depthImage' = IF H("depthImage", builds, 0) \in made
                             THEN H("depthImage", builds, 0) ELSE depthImage
            /\ depthImageMemory' = IF H("depthImageMemory", builds, 0) \in made
                                   THEN H("depthImageMemory", builds, 0) ELSE depthImageMemory
            /\ depthImageView' = IF H("depthImageView", builds, 0) \in made
                                 THEN H("depthImageView", builds, 0) ELSE depthImageView
            /\ IF failAt = "none" THEN Goto("createFramebuffers")
                                  ELSE Throw(ImageFailure(failAt))
    /\ UNCHANGED <<caller, ret, bQuit, swapchain, swapchainImages, swapchainExtent,
                   swapchainImageViews, swapchainFramebuffers,
                   colorImage, colorImageMemory, colorImageView,
                   frameVars, localVars, builds, queriedImageCount, fbAttachments,
                   gpuVars, winVars, histVars>>
    /\ UNCHANGED <<fmtVars, lastCall, loadVars, syncVars>>

\* variant of FramebufferCount: one framebuffer per frame in flight
FramebufferPerSlot == MAX_FRAMES_IN_FLIGHT

\* number of framebuffers createFramebuffers makes
FramebufferCount == Len(swapchainImageViews)

\* where recreateSwapchain returns to in drawFrame
ReturnPc == IF ret = "abandon" THEN "return" ELSE "advance"

\* VulkanContext::createFramebuffers; k framebuffers are created before the throw.
\* It is the last step of initVulkan's swapchain part and of recreateSwapchain.
createFramebuffers ==
    /\ pc = "createFramebuffers"
    /\ LET n == FramebufferCount
       IN \E k \in 0 .. n :
            LET made == {H("framebuffer", builds, i) : i \in 1 .. k}
            IN /\ swapchainFramebuffers' =
                     [i \in 1 .. n |-> IF i <= k THEN H("framebuffer", builds, i)
                                       ELSE IF i <= Len(swapchainFramebuffers)
                                            THEN swapchainFramebuffers[i]
                                            ELSE NullHandle]
               /\ Track(made, {})
               /\ fbAttachments' =
                     [f \in (DOMAIN fbAttachments) \cup made |->
                        IF f \in made
                        THEN {colorImageView, depthImageView, swapchainImageViews[f[3]]}
                        ELSE fbAttachments[f]]
               /\ IF k < n
                  THEN /\ Throw("Failed to create framebuffer!")
                       /\ UNCHANGED <<caller, ret, width, height>>
                  ELSE IF caller = "initVulkan"
                  THEN /\ Goto("createSyncObjects")
                       /\ UNCHANGED <<caller, ret, width, height>>
                  ELSE /\ Goto(ReturnPc)
                       /\ caller' = "none" /\ ret' = "none"
                       /\ width' = 0 /\ height' = 0
    /\ UNCHANGED <<bQuit, swapchain, swapchainImages, swapchainExtent,
                   swapchainImageViews,
                   colorImage, colorImageMemory, colorImageView,
                   depthImage, depthImageMemory, depthImageView,
                   frameVars, imageIndex, result, builds, queriedImageCount,
                   gpuVars, winVars, histVars>>
    /\ UNCHANGED <<fmtVars, lastCall, loadVars, syncVars>>

\* createTextureImage ... createCommandBuffers, createSyncObjects: the rest of
\* initVulkan.  The command buffers are allocated and the fences are created
\* signaled.
\* variant of FenceCreatedSignaled: fenceInfo.flags left 0
FenceCreatedUnsignaled == FALSE

\* fenceInfo.flags = VK_FENCE_CREATE_SIGNALED_BIT
FenceCreatedSignaled == TRUE

createSyncObjects ==
    /\ pc = "createSyncObjects"
    /\ \E ok \in BOOLEAN :
         IF ok
         THEN /\ Track(ResourceObjects \cup SyncObjects, {})
              /\ commandBuffers' = [s \in Slots |-> "initial"]
              /\ inFlightFences' = [s \in Slots |-> FenceCreatedSignaled]
              /\ Goto("run")
              /\ caller' = "none"
         ELSE /\ Throw("Failed to create synchronization objects for a frame!")
              /\ NoTrack
              /\ UNCHANGED <<commandBuffers, inFlightFences, caller>>
    /\ UNCHANGED <<ret, bQuit, scVars, currentFrame, framebufferResized, localVars,
                   builds, queriedImageCount, fbAttachments, gpuVars, winVars, histVars>>
    /\ UNCHANGED <<fmtVars, lastCall, loadVars, syncVars>>

\* ------------------------------------------------------------------------
\* DisplayServer::run
\* ------------------------------------------------------------------------
QuitEvents == {"SDL_QUIT", "SDLK_ESCAPE"}

\* e.type == SDL_QUIT || e.type == SDL_KEYDOWN && e.key.keysym.sym == SDLK_ESCAPE
IsQuit(e) == e \in QuitEvents

\* variant of PollEvent: a frame is drawn in every iteration of the outer loop,
\* with or without an event
PollEventDrawsWhenIdle ==
    /\ pc = "run"
    /\ (events = <<>>) => ~bQuit
    /\ bQuit' = (IF events # <<>> /\ IsQuit(Head(events)) THEN TRUE ELSE bQuit)
    /\ events' = (IF events # <<>> THEN Tail(events) ELSE events)
    /\ Goto("drawFrame")
    /\ slotAtEntry' = currentFrame
    /\ UNCHANGED <<caller, ret, scVars, frameVars, localVars, objVars, gpuVars,
                   drawable, posted, frameLog>>
    /\ UNCHANGED <<fmtVars, lastCall, loadVars, syncVars>>

\* variant of PollEvent: the loop is left at the quit event, without a frame
\* for it (break after bQuit = true)
PollEventBreaksOnQuit ==
    /\ pc = "run"
    /\ events # <<>>
    /\ bQuit' = (IF IsQuit(Head(events)) THEN TRUE ELSE bQuit)
    /\ events' = Tail(events)
    /\ IF IsQuit(Head(events))
       THEN /\ Goto("deviceWaitIdle")
            /\ caller' = "cleanup"
       ELSE /\ Goto("drawFrame")
            /\ UNCHANGED caller
    /\ slotAtEntry' = currentFrame
    /\ UNCHANGED <<ret, scVars, frameVars, localVars, objVars, gpuVars,
                   drawable, posted, frameLog>>
    /\ UNCHANGED <<fmtVars, lastCall, loadVars, syncVars>>

\* SDL_PollEvent returned an event: the inner loop body up to the call of drawFrame
PollEvent ==
    /\ pc = "run"
    /\ events # <<>>
    /\ bQuit' = (IF IsQuit(Head(events)) THEN TRUE ELSE bQuit)
    /\ events' = Tail(events)
    /\ Goto("drawFrame")
    /\ slotAtEntry' = currentFrame
    /\ UNCHANGED <<caller, ret, scVars, frameVars, localVars, objVars, gpuVars,
                   drawable, posted, frameLog>>
    /\ UNCHANGED <<fmtVars, lastCall, loadVars, syncVars>>

\* SDL_PollEvent returned 0 and bQuit is set: run returns and the display
\* server is cleaned up (DisplayServer::cleanup calls VulkanContext::cleanup)
ExitRun ==
    /\ pc = "run"
    /\ events = <<>>
    /\ bQuit
    /\ Goto("deviceWaitIdle")
    /\ caller' = "cleanup"
    /\ UNCHANGED <<ret, bQuit, scVars, frameVars, localVars, objVars, gpuVars,
                   winVars, histVars>>
    /\ UNCHANGED <<fmtVars, lastCall, loadVars, syncVars>>

\* ------------------------------------------------------------------------
\* VulkanContext::drawFrame
\* ------------------------------------------------------------------------
\* variant of FenceWaitReturns: the wait returns without the fence being signaled
FenceWaitSkipped(s) == TRUE

\* vkWaitForFences(..., UINT64_MAX) returns once the slot's fence is signaled
FenceWaitReturns(s) == inFlightFences[s]

WaitForFences ==
    /\ pc = "drawFrame"
    /\ FenceWaitReturns(currentFrame)
    /\ Goto("acquire")
    /\ Log("vkWaitForFences", VK_SUCCESS)
    /\ UNCHANGED <<caller, ret, bQuit, scVars, frameVars, localVars, objVars, gpuVars,
                   winVars, slotAtEntry>>
    /\ UNCHANGED <<fmtVars, lastCall, loadVars, syncVars>>

\* variants of AcquireBranch
\* out-of-date is taken like success: the frame goes on
AcquireIgnoresOutOfDate(res) ==
    IF res # VK_SUCCESS /\ res # VK_SUBOPTIMAL_KHR /\ res # VK_ERROR_OUT_OF_DATE_KHR
    THEN "fatal" ELSE "continue"

\* suboptimal is taken like out-of-date: recreate and abandon
AcquireRecreatesOnSuboptimal(res) ==
    IF res = VK_ERROR_OUT_OF_DATE_KHR \/ res = VK_SUBOPTIMAL_KHR THEN "recreate"
    ELSE IF res # VK_SUCCESS THEN "fatal"
    ELSE "continue"

\* everything but success and out-of-date is an error
AcquireStrict(res) ==
    IF res = VK_ERROR_OUT_OF_DATE_KHR THEN "recreate"
    ELSE IF res # VK_SUCCESS THEN "fatal"
    ELSE "continue"

\* what drawFrame does with the result of vkAcquireNextImageKHR
AcquireBranch(res) ==
    IF res = VK_ERROR_OUT_OF_DATE_KHR THEN "recreate"
    ELSE IF res # VK_SUCCESS /\ res # VK_SUBOPTIMAL_KHR THEN "fatal"
    ELSE "continue"

\* the semaphore passed to vkAcquireNextImageKHR
AcquireSemaphore == currentFrame

AcquireNextImage ==
    /\ pc = "acquire"
    /\ \E res \in AcquireResults, idx \in 0 .. (Len(swapchainImages) - 1) :
         /\ (res = VK_ERROR_OUT_OF_DATE_KHR) => (builds < MaxBuilds)
         /\ result' = res
         /\ Log("vkAcquireNextImageKHR", res)
         /\ CASE AcquireBranch(res) = "recreate" ->
                   /\ Goto("recreateSwapchain")
                   /\ ret' = "abandon"
                   /\ UNCHANGED imageIndex
              [] AcquireBranch(res) = "fatal" ->
                   /\ Throw("Failed to acquire swap chain image!")
                   /\ UNCHANGED <<ret, imageIndex>>
              [] OTHER ->
                   /\ Goto("resetFences")
                   /\ imageIndex' = idx
                   /\ UNCHANGED ret
         \* the semaphore is signaled when the image is handed over, with
         \* VK_SUCCESS and VK_SUBOPTIMAL_KHR only
         /\ imageAvailableSemaphores' =
               IF res \in {VK_SUCCESS, VK_SUBOPTIMAL_KHR}
               THEN [imageAvailableSemaphores EXCEPT ![AcquireSemaphore] = TRUE]
               ELSE imageAvailableSemaphores
    /\ acquiredFrom' = swapchain
    /\ UNCHANGED <<caller, bQuit, scVars, frameVars, width, height, objVars, gpuVars,
                   winVars, slotAtEntry>>
    /\ UNCHANGED <<renderFinishedSemaphores, submitInfo, presentInfo, uniformWrites>>
    /\ UNCHANGED <<fmtVars, lastCall, loadVars>>

ResetFences ==
    /\ pc = "resetFences"
    /\ inFlightFences' = [inFlightFences EXCEPT ![currentFrame] = FALSE]
    /\ Goto("resetCommandBuffer")
    /\ Log("vkResetFences", VK_SUCCESS)
    /\ UNCHANGED <<caller, ret, bQuit, scVars, commandBuffers, currentFrame,
                   framebufferResized, localVars, objVars, gpuVars, winVars, slotAtEntry>>
    /\ UNCHANGED <<fmtVars, lastCall, loadVars, syncVars>>

ResetCommandBuffer ==
    /\ pc = "resetCommandBuffer"
    /\ commandBuffers' = [commandBuffers EXCEPT ![currentFrame] = "initial"]
    /\ cmdFramebuffer' = [cmdFramebuffer EXCEPT ![currentFrame] = NullHandle]
    /\ Goto("recordCommandBuffer")
    /\ Log("vkResetCommandBuffer", VK_SUCCESS)
    /\ UNCHANGED <<caller, ret, bQuit, scVars, inFlightFences, currentFrame,
                   framebufferResized, localVars, objVars, pending,
                   winVars, slotAtEntry>>
    /\ UNCHANGED <<fmtVars, lastCall, loadVars, syncVars>>

\* VulkanContext::recordCommandBuffer
recordCommandBuffer ==
    /\ pc = "recordCommandBuffer"
    /\ \E failAt \in {"none", "vkBeginCommandBuffer", "vkEndCommandBuffer"} :
         CASE failAt = "vkBeginCommandBuffer" ->
                /\ Throw("Failed to begin recording command buffer!")
                /\ Log("vkBeginCommandBuffer", VK_ERROR)
                /\ UNCHANGED <<commandBuffers, cmdFramebuffer>>
           [] failAt = "vkEndCommandBuffer" ->
                /\ Throw("Failed to record command buffer!")
                /\ Log("vkEndCommandBuffer", VK_ERROR)
                /\ commandBuffers' = [commandBuffers EXCEPT ![currentFrame] = "invalid"]
                /\ cmdFramebuffer' = [cmdFramebuffer EXCEPT
                                        ![currentFrame] = swapchainFramebuffers[imageIndex + 1]]
           [] OTHER ->
                /\ Goto("updateUniformBuffer")
                /\ Log("recordCommandBuffer", VK_SUCCESS)
                /\ commandBuffers' = [commandBuffers EXCEPT ![currentFrame] = "executable"]
                /\ cmdFramebuffer' = [cmdFramebuffer EXCEPT
                                        ![currentFrame] = swapchainFramebuffers[imageIndex + 1]]
    /\ UNCHANGED <<caller, ret, bQuit, scVars, inFlightFences, currentFrame,
                   framebufferResized, localVars, objVars, pending,
                   winVars, slotAtEntry>>
    /\ UNCHANGED <<fmtVars, lastCall, loadVars, syncVars>>

\* variant of UniformSlot: the buffers of the slot after the current one
UniformSlotNext == (currentFrame + 1) % MAX_FRAMES_IN_FLIGHT

\* the argument currentImage of updateUniformBuffer and updateUniformBuffer2
UniformSlot == currentFrame

\* updateUniformBuffer(currentFrame); updateUniformBuffer2(currentFrame):
\* memcpy into uniformBuffersMapped[currentImage], uniformBuffersMapped2[currentImage]
updateUniformBuffer ==
    /\ pc = "updateUniformBuffer"
    /\ Goto("queueSubmit")
    /\ Log("updateUniformBuffer", VK_SUCCESS)
    /\ uniformWrites' = uniformWrites \cup {UniformSlot}
    /\ UNCHANGED <<imageAvailableSemaphores, renderFinishedSemaphores, acquiredFrom,
                   submitInfo, presentInfo>>
    /\ UNCHANGED <<caller, ret, bQuit, scVars, frameVars, localVars, objVars, gpuVars,
                   winVars, slotAtEntry>>
    /\ UNCHANGED <<fmtVars, lastCall, loadVars>>

\* variant of SubmitInfo: the submit signals the other slot's semaphore
SubmitInfoSignalsOtherSlot ==
    [waitSemaphore |-> currentFrame,
     waitStage |-> "VK_PIPELINE_STAGE_COLOR_ATTACHMENT_OUTPUT_BIT",
     commandBuffer |-> currentFrame,
     signalSemaphore |-> (currentFrame + 1) % MAX_FRAMES_IN_FLIGHT,
     fence |-> currentFrame]

\* submitInfo of drawFrame and the fence passed with it, each by its slot
SubmitInfo ==
    [waitSemaphore |-> currentFrame,
     waitStage |-> "VK_PIPELINE_STAGE_COLOR_ATTACHMENT_OUTPUT_BIT",
     commandBuffer |-> currentFrame,
     signalSemaphore |-> currentFrame,
     fence |-> currentFrame]

\* vkQueueSubmit of the slot's command buffer with the slot's fence: the
\* submission consumes the signal of the semaphore it waits on and will signal
\* its signal semaphore
QueueSubmit ==
    /\ pc = "queueSubmit"
    /\ \E ok \in BOOLEAN :
         IF ok
         THEN /\ pending' = pending \cup
                    {[slot |-> currentFrame, framebuffer |-> cmdFramebuffer[currentFrame],
                      id |-> Cardinality({p \in pending : p.slot = currentFrame})]}
              /\ commandBuffers' = [commandBuffers EXCEPT ![currentFrame] = "pending"]
              /\ submitInfo' = Append(submitInfo, SubmitInfo)
              /\ imageAvailableSemaphores' =
                    [imageAvailableSemaphores EXCEPT ![SubmitInfo.waitSemaphore] = FALSE]
              /\ renderFinishedSemaphores' =
                    [renderFinishedSemaphores EXCEPT ![SubmitInfo.signalSemaphore] = TRUE]
              /\ Goto("queuePresent")
              /\ Log("vkQueueSubmit", VK_SUCCESS)
         ELSE /\ Throw("Failed to submit draw command buffer!")
              /\ Log("vkQueueSubmit", VK_ERROR)
              /\ UNCHANGED <<pending, commandBuffers, submitInfo,
                             imageAvailableSemaphores, renderFinishedSemaphores>>
    /\ UNCHANGED <<acquiredFrom, presentInfo, uniformWrites>>
    /\ UNCHANGED <<caller, ret, bQuit, scVars, inFlightFences, currentFrame,
                   framebufferResized, localVars, objVars, cmdFramebuffer,
                   winVars, slotAtEntry>>
    /\ UNCHANGED <<fmtVars, lastCall, loadVars>>

\* variant of PresentNeedsRecreate: suboptimal is not a reason to recreate
PresentRecreatesOnOutOfDateOnly(res, resized) ==
    res = VK_ERROR_OUT_OF_DATE_KHR \/ resized

\* the condition under which drawFrame recreates the swapchain after present
PresentNeedsRecreate(res, resized) ==
    res = VK_ERROR_OUT_OF_DATE_KHR \/ res = VK_SUBOPTIMAL_KHR \/ resized

\* presentInfo of drawFrame: it waits on signalSemaphores, the array the
\* submit signals
PresentInfo ==
    [waitSemaphore |-> currentFrame, swapchain |-> swapchain, imageIndex |-> imageIndex]

\* vkQueuePresentKHR: the wait on the semaphore is queued whatever the result
QueuePresent ==
    /\ pc = "queuePresent"
    /\ presentInfo' = Append(presentInfo, PresentInfo)
    /\ renderFinishedSemaphores' =
          [renderFinishedSemaphores EXCEPT ![PresentInfo.waitSemaphore] = FALSE]
    /\ UNCHANGED <<imageAvailableSemaphores, acquiredFrom, submitInfo, uniformWrites>>
    /\ \E res \in PresentResults :
         /\ (res \in {VK_ERROR_OUT_OF_DATE_KHR, VK_SUBOPTIMAL_KHR}) => (builds < MaxBuilds)
         /\ result' = res
         /\ Log("vkQueuePresentKHR", res)
         /\ IF PresentNeedsRecreate(res, framebufferResized)
            THEN /\ framebufferResized' = FALSE
                 /\ Goto("recreateSwapchain")
                 /\ ret' = "advance"
            ELSE IF res # VK_SUCCESS
            THEN /\ Throw("Failed to present swap chain image!")
                 /\ UNCHANGED <<framebufferResized, ret>>
            ELSE /\ Goto("advance")
                 /\ UNCHANGED <<framebufferResized, ret>>
    /\ UNCHANGED <<caller, bQuit, scVars, commandBuffers, inFlightFences, currentFrame,
                   imageIndex, width, height, objVars, gpuVars, winVars, slotAtEntry>>
    /\ UNCHANGED <<fmtVars, lastCall, loadVars>>

\* drawFrame returns to the display loop: its locals are gone
LeaveDrawFrame ==
    /\ Goto("run")
    /\ imageIndex' = NoImage
    /\ result' = VK_SUCCESS
    /\ frameLog' = <<>>
    /\ acquiredFrom' = NullHandle
    /\ submitInfo' = <<>>
    /\ presentInfo' = <<>>
    /\ uniformWrites' = {}
    /\ UNCHANGED <<imageAvailableSemaphores, renderFinishedSemaphores>>
    /\ UNCHANGED <<caller, ret, bQuit, scVars, commandBuffers, inFlightFences,
                   framebufferResized, width, height, objVars, gpuVars, winVars,
                   slotAtEntry>>
    /\ UNCHANGED <<fmtVars, lastCall, loadVars>>

\* currentFrame = (currentFrame + 1) % MAX_FRAMES_IN_FLIGHT; drawFrame returns
AdvanceFrame ==
    /\ pc = "advance"
    /\ currentFrame' = (currentFrame + 1) % MAX_FRAMES_IN_FLIGHT
    /\ LeaveDrawFrame

\* variant of AbandonFrame: the abandoned call advances currentFrame as well
AbandonFrameAdvances ==
    /\ pc = "return"
    /\ currentFrame' = (currentFrame + 1) % MAX_FRAMES_IN_FLIGHT
    /\ LeaveDrawFrame

\* the return after recreateSwapchain when the acquire was out of date
AbandonFrame ==
    /\ pc = "return"
    /\ UNCHANGED currentFrame
    /\ LeaveDrawFrame

\* ------------------------------------------------------------------------
\* VulkanContext::recreateSwapchain
\* ------------------------------------------------------------------------
\* variant of Minimized: && in place of ||
MinimizedBoth(w, h) == w = 0 /\ h = 0

\* the loop condition: width == 0 || height == 0
Minimized(w, h) == w = 0 \/ h = 0

\* entry: the first SDL_Vulkan_GetDrawableSize and the first test of the loop
recreateSwapchain ==
    /\ pc = "recreateSwapchain"
    /\ width' = drawable[1]
    /\ height' = drawable[2]
    /\ Goto(IF Minimized(drawable[1], drawable[2]) THEN "getDrawableSize"
                                                   ELSE "deviceWaitIdle")
    /\ caller' = "recreateSwapchain"
    /\ Log("recreateSwapchain", VK_SUCCESS)
    /\ UNCHANGED <<ret, bQuit, scVars, frameVars, imageIndex, result, objVars, gpuVars,
                   winVars, slotAtEntry>>
    /\ UNCHANGED <<fmtVars, lastCall, loadVars, syncVars>>

\* loop body, first statement: SDL_Vulkan_GetDrawableSize
GetDrawableSize ==
    /\ pc = "getDrawableSize"
    /\ width' = drawable[1]
    /\ height' = drawable[2]
    /\ Goto("waitEvent")
    /\ UNCHANGED <<caller, ret, bQuit, scVars, frameVars, imageIndex, result, objVars,
                   gpuVars, winVars, histVars>>
    /\ UNCHANGED <<fmtVars, lastCall, loadVars, syncVars>>

\* variant of WaitEvent: a quit event in the queue ends the wait loop
WaitEventLeavesOnQuit ==
    /\ pc = "waitEvent"
    /\ events # <<>>
    /\ Goto(IF Minimized(width, height) /\ ~(\E i \in 1 .. Len(events) : IsQuit(events[i]))
            THEN "getDrawableSize" ELSE "deviceWaitIdle")
    /\ UNCHANGED <<caller, ret, bQuit, scVars, frameVars, localVars, objVars, gpuVars,
                   winVars, histVars>>
    /\ UNCHANGED <<fmtVars, lastCall, loadVars, syncVars>>

\* variant of WaitEvent: SDL_WaitEvent(&e), which takes the event off the queue
WaitEventRemovesEvent ==
    /\ pc = "waitEvent"
    /\ events # <<>>
    /\ events' = Tail(events)
    /\ Goto(IF Minimized(width, height) THEN "getDrawableSize" ELSE "deviceWaitIdle")
    /\ UNCHANGED <<caller, ret, bQuit, scVars, frameVars, localVars, objVars, gpuVars,
                   drawable, posted, histVars>>
    /\ UNCHANGED <<fmtVars, lastCall, loadVars, syncVars>>

\* loop body, SDL_WaitEvent(NULL): returns 1 once an event is in the queue and
\* leaves it there; then the loop condition is tested again
WaitEvent ==
    /\ pc = "waitEvent"
    /\ events # <<>>
    /\ Goto(IF Minimized(width, height) THEN "getDrawableSize" ELSE "deviceWaitIdle")
    /\ UNCHANGED <<caller, ret, bQuit, scVars, frameVars, localVars, objVars, gpuVars,
                   winVars, histVars>>
    /\ UNCHANGED <<fmtVars, lastCall, loadVars, syncVars>>

\* SDL_WaitEvent returned 0: consoleMessage(SDL_GetError(), true)
WaitEventFails ==
    /\ pc = "waitEvent"
    /\ Throw("SDL_GetError")
    /\ UNCHANGED <<caller, ret, bQuit, scVars, frameVars, localVars, objVars, gpuVars,
                   winVars, histVars>>
    /\ UNCHANGED <<fmtVars, lastCall, loadVars, syncVars>>

\* variant of DeviceIdle: recreateSwapchain and cleanup do not wait
DeviceIdleSkipped == TRUE

\* vkDeviceWaitIdle returns once the GPU has completed every submission
DeviceIdle == pending = {}

\* vkDeviceWaitIdle(device) of recreateSwapchain and of cleanup
DeviceWaitIdle ==
    /\ pc = "deviceWaitIdle"
    /\ DeviceIdle
    /\ Goto("cleanupSwapchain")
    /\ UNCHANGED <<caller, ret, bQuit, scVars, frameVars, localVars, objVars, gpuVars,
                   winVars, histVars>>
    /\ UNCHANGED <<fmtVars, lastCall, loadVars, syncVars>>

\* variant of SwapchainObjects: the depth image's memory is not freed
SwapchainObjectsLeakDepthMemory ==
    {colorImageView, colorImage, colorImageMemory, depthImageView, depthImage}
    \cup Range(swapchainFramebuffers)
    \cup Range(swapchainImageViews)
    \cup {swapchain}

\* variant of SwapchainObjects: the render pass is destroyed with the swapchain
SwapchainObjectsWithRenderPass ==
    {colorImageView, colorImage, colorImageMemory,
     depthImageView, depthImage, depthImageMemory}
    \cup Range(swapchainFramebuffers)
    \cup Range(swapchainImageViews)
    \cup {swapchain, H("renderPass", 0, 0)}

\* the handles cleanupSwapchain passes to vkDestroy* / vkFreeMemory
SwapchainObjects ==
    {colorImageView, colorImage, colorImageMemory,
     depthImageView, depthImage, depthImageMemory}
    \cup Range(swapchainFramebuffers)
    \cup Range(swapchainImageViews)
    \cup {swapchain}

\* VulkanContext::cleanupSwapchain (destroying VK_NULL_HANDLE is a no-op)
cleanupSwapchain ==
    /\ pc = "cleanupSwapchain"
    /\ Track({}, SwapchainObjects \ {NullHandle})
    /\ Goto(IF caller = "recreateSwapchain" THEN "createSwapchain" ELSE "cleanup")
    /\ UNCHANGED <<caller, ret, bQuit, scVars, frameVars, localVars, builds,
                   queriedImageCount, fbAttachments, gpuVars, winVars, histVars>>
    /\ UNCHANGED <<fmtVars, lastCall, loadVars, syncVars>>

\* ------------------------------------------------------------------------
\* VulkanContext::cleanup after cleanupSwapchain
\* ------------------------------------------------------------------------
cleanup ==
    /\ pc = "cleanup"
    /\ Track({}, ResourceObjects \cup PipelineObjects \cup SyncObjects \cup DeviceObjects)
    /\ Goto("done")
    /\ UNCHANGED <<caller, ret, bQuit, scVars, frameVars, localVars, builds,
                   queriedImageCount, fbAttachments, gpuVars, winVars, histVars>>
    /\ UNCHANGED <<fmtVars, lastCall, loadVars, syncVars>>

\* ------------------------------------------------------------------------
\* GPU and window system
\* ------------------------------------------------------------------------
Running == pc \notin {"aborted", "done"}

\* the GPU completes a submission: its fence is signaled and the command
\* buffer leaves the pending state
GpuComplete ==
    /\ Running
    /\ \E p \in pending :
         /\ pending' = pending \ {p}
         /\ inFlightFences' = [inFlightFences EXCEPT ![p.slot] = TRUE]
         /\ commandBuffers' = [commandBuffers EXCEPT
                                 ![p.slot] = IF @ = "pending" THEN "executable" ELSE @]
    /\ UNCHANGED <<cpuVars, scVars, currentFrame, framebufferResized, localVars, objVars,
                   cmdFramebuffer, winVars, histVars>>
    /\ UNCHANGED <<fmtVars, lastCall, loadVars, syncVars>>

\* The program reads the event queue in the display loop and in SDL_WaitEvent,
\* and the drawable size where a swapchain is built or recreateSwapchain looks
\* at it.  An event posted while the CPU thread is elsewhere is the same to the
\* program as one posted when it next gets to one of these positions.  The
\* window system is modelled from the end of initVulkan on (the window keeps
\* the size it was created with while initVulkan runs).
Polling ==
    /\ pc \in {"run", "waitEvent", "getDrawableSize", "recreateSwapchain", "createSwapchain"}
    /\ caller \notin {"initVulkan", "cleanup"}

\* the user closes the window or presses Escape: SDL_QUIT, or SDL_KEYDOWN with
\* SDLK_ESCAPE, is posted
QuitEvent ==
    /\ Polling
    /\ posted < MaxEvents
    /\ \E e \in QuitEvents : events' = Append(events, e)
    /\ posted' = posted + 1
    /\ UNCHANGED <<cpuVars, scVars, frameVars, localVars, objVars, gpuVars, drawable,
                   histVars>>
    /\ UNCHANGED <<fmtVars, lastCall, loadVars, syncVars>>

\* variant of WindowEvent: a resize handler sets framebufferResized when the
\* drawable size changes
WindowEventSetsResized ==
    /\ Polling
    /\ posted < MaxEvents
    /\ \E size \in DrawableSizes :
         /\ drawable' = size
         /\ framebufferResized' = (framebufferResized \/ size # drawable)
    /\ events' = Append(events, "SDL_WINDOWEVENT")
    /\ posted' = posted + 1
    /\ UNCHANGED <<cpuVars, scVars, commandBuffers, inFlightFences, currentFrame,
                   localVars, objVars, gpuVars, histVars>>
    /\ UNCHANGED <<fmtVars, lastCall, loadVars, syncVars>>

\* a window event is posted: the window was moved or exposed (same drawable
\* size), or resized, minimized or restored (the drawable size changes)
WindowEvent ==
    /\ Polling
    /\ posted < MaxEvents
    /\ \E size \in DrawableSizes : drawable' = size
    /\ events' = Append(events, "SDL_WINDOWEVENT")
    /\ posted' = posted + 1
    /\ UNCHANGED <<cpuVars, scVars, frameVars, localVars, objVars, gpuVars, histVars>>
    /\ UNCHANGED <<fmtVars, lastCall, loadVars, syncVars>>

\* ------------------------------------------------------------------------
\* Specification
\* ------------------------------------------------------------------------
Next ==
    \/ createLogicalDevice
    \/ createSwapchain
    \/ createImageViews
    \/ createGraphicsPipeline
    \/ createColorResources
    \/ createDepthResources
    \/ createFramebuffers
    \/ createSyncObjects
    \/ PollEvent
    \/ ExitRun
    \/ WaitForFences
    \/ AcquireNextImage
    \/ ResetFences
    \/ ResetCommandBuffer
    \/ recordCommandBuffer
    \/ updateUniformBuffer
    \/ QueueSubmit
    \/ QueuePresent
    \/ AdvanceFrame
    \/ AbandonFrame
    \/ recreateSwapchain
    \/ GetDrawableSize
    \/ WaitEvent
    \/ WaitEventFails
    \/ DeviceWaitIdle
    \/ cleanupSwapchain
    \/ cleanup
    \/ GpuComplete
    \/ QuitEvent
    \/ WindowEvent

Spec == Init /\ [][Next]_vars

\* The steps the CPU thread takes when it is not blocked.  SDL_PollEvent,
\* vkWaitForFences, SDL_WaitEvent and vkDeviceWaitIdle are the calls it can
\* block in: their actions are enabled only when the call can return.  A
\* failing SDL_WaitEvent (WaitEventFails) is something that may happen, not
\* something that must.
CpuProgress ==
    \/ createLogicalDevice
    \/ createSwapchain
    \/ createImageViews
    \/ createGraphicsPipeline
    \/ createColorResources
    \/ createDepthResources
    \/ createFramebuffers
    \/ createSyncObjects
    \/ PollEvent
    \/ ExitRun
    \/ WaitForFences
    \/ AcquireNextImage
    \/ ResetFences
    \/ ResetCommandBuffer
    \/ recordCommandBuffer
    \/ updateUniformBuffer
    \/ QueueSubmit
    \/ QueuePresent
    \/ AdvanceFrame
    \/ AbandonFrame
    \/ recreateSwapchain
    \/ GetDrawableSize
    \/ WaitEvent
    \/ DeviceWaitIdle
    \/ cleanupSwapchain
    \/ cleanup

\* the program with a CPU thread that runs when it can and a GPU that
\* completes the work it was given; the window system owes nothing
SpecLive == Init /\ [][Next]_vars /\ WF_vars(CpuProgress) /\ WF_vars(GpuComplete)

\* ------------------------------------------------------------------------
\* Failures of the calls whose VkResult drawFrame does not look at:
\* vkWaitForFences, vkResetFences and vkResetCommandBuffer are called as
\* statements.  A failed call has not done its work; drawFrame goes on.
\* ------------------------------------------------------------------------
WaitForFencesFails ==
    /\ pc = "drawFrame"
    /\ Goto("acquire")
    /\ Log("vkWaitForFences", VK_ERROR)
    /\ UNCHANGED <<caller, ret, bQuit, scVars, frameVars, localVars, objVars, gpuVars,
                   winVars, slotAtEntry>>
    /\ UNCHANGED <<fmtVars, lastCall, loadVars, syncVars>>

ResetFencesFails ==
    /\ pc = "resetFences"
    /\ Goto("resetCommandBuffer")
    /\ Log("vkResetFences", VK_ERROR)
    /\ UNCHANGED <<caller, ret, bQuit, scVars, frameVars, localVars, objVars, gpuVars,
                   winVars, slotAtEntry>>
    /\ UNCHANGED <<fmtVars, lastCall, loadVars, syncVars>>

ResetCommandBufferFails ==
    /\ pc = "resetCommandBuffer"
    /\ Goto("recordCommandBuffer")
    /\ Log("vkResetCommandBuffer", VK_ERROR)
    /\ UNCHANGED <<caller, ret, bQuit, scVars, frameVars, localVars, objVars, gpuVars,
                   winVars, slotAtEntry>>
    /\ UNCHANGED <<fmtVars, lastCall, loadVars, syncVars>>

NextFault ==
    \/ Next
    \/ WaitForFencesFails
    \/ ResetFencesFails
    \/ ResetCommandBufferFails

\* the program with the driver free to fail these calls as well
SpecFault == Init /\ [][NextFault]_vars

\* ------------------------------------------------------------------------
\* A surface whose format list changes while the program runs (the window is
\* moved to another display, the display's colour mode is switched):
\* createSwapchain queries the list again at every recreation.
\* ------------------------------------------------------------------------
ReportedSurfaceFormats ==
    {<<PreferredFormat>>,
     <<<<"VK_FORMAT_R8G8B8A8_UNORM", "VK_COLOR_SPACE_SRGB_NONLINEAR_KHR">>>>}

SurfaceFormatsChange ==
    /\ pc = "recreateSwapchain"
    /\ \E formats \in ReportedSurfaceFormats :
         /\ formats # surfaceFormats
         /\ surfaceFormats' = formats
    /\ UNCHANGED <<cpuVars, scVars, frameVars, localVars, objVars, gpuVars, winVars,
                   histVars, swapchainImageFormat, renderPassFormat, lastCall, loadVars,
                   syncVars>>

NextFormat ==
    \/ Next
    \/ SurfaceFormatsChange

SpecFormat == Init /\ [][NextFormat]_vars

\* ------------------------------------------------------------------------
\* Helper functions of VulkanContext, each called on its own
\* ------------------------------------------------------------------------
PresentModes == {"VK_PRESENT_MODE_IMMEDIATE_KHR", "VK_PRESENT_MODE_MAILBOX_KHR",
                 "VK_PRESENT_MODE_FIFO_KHR", "VK_PRESENT_MODE_FIFO_RELAXED_KHR"}

\* the loop of chooseSwapPresentMode from index i on
RECURSIVE FirstMailboxFrom(_, _)
FirstMailboxFrom(availablePresentModes, i) ==
    IF i > Len(availablePresentModes) THEN "VK_PRESENT_MODE_FIFO_KHR"
    ELSE IF availablePresentModes[i] = "VK_PRESENT_MODE_MAILBOX_KHR"
         THEN availablePresentModes[i]
         ELSE FirstMailboxFrom(availablePresentModes, i + 1)

\* variant of chooseSwapPresentMode: without mailbox, the first mode listed
choosePresentModeFirstListed(availablePresentModes) ==
    IF "VK_PRESENT_MODE_MAILBOX_KHR" \in Range(availablePresentModes)
    THEN "VK_PRESENT_MODE_MAILBOX_KHR"
    ELSE IF availablePresentModes # <<>> THEN availablePresentModes[1]
    ELSE "VK_PRESENT_MODE_FIFO_KHR"

\* VulkanContext::chooseSwapPresentMode
chooseSwapPresentMode(availablePresentModes) == FirstMailboxFrom(availablePresentModes, 1)

\* capabilities and drawable sizes chooseSwapExtent is called with
ExtentCapabilities ==
    [currentExtent : {<<UintMax, UintMax>>, <<UintMax, 480>>, <<640, 480>>, <<5000, 100>>},
     minImageExtent : {<<1, 1>>, <<320, 240>>},
     maxImageExtent : {<<1024, 768>>, <<4096, 4096>>},
     minImageCount : {1},
     maxImageCount : {0}]

DrawableWidths == {0, 200, 800, 2000, 5000}
DrawableHeights == {0, 100, 600, 5000}

\* capabilities createSwapchain computes its image count from
CountCapabilities ==
    [minImageCount : 1 .. MaxImageCount, maxImageCount : 0 .. MaxImageCount]

ImageLayouts == {"VK_IMAGE_LAYOUT_UNDEFINED", "VK_IMAGE_LAYOUT_TRANSFER_DST_OPTIMAL",
                 "VK_IMAGE_LAYOUT_TRANSFER_SRC_OPTIMAL",
                 "VK_IMAGE_LAYOUT_SHADER_READ_ONLY_OPTIMAL",
                 "VK_IMAGE_LAYOUT_COLOR_ATTACHMENT_OPTIMAL",
                 "VK_IMAGE_LAYOUT_DEPTH_STENCIL_ATTACHMENT_OPTIMAL"}

\* variant of TransitionStages: any other pair gets a full barrier
TransitionStagesPermissive(oldLayout, newLayout) ==
    IF oldLayout = "VK_IMAGE_LAYOUT_UNDEFINED"
       /\ newLayout = "VK_IMAGE_LAYOUT_TRANSFER_DST_OPTIMAL"
    THEN <<"VK_PIPELINE_STAGE_TOP_OF_PIPE_BIT", "VK_PIPELINE_STAGE_TRANSFER_BIT">>
    ELSE IF oldLayout = "VK_IMAGE_LAYOUT_TRANSFER_DST_OPTIMAL"
            /\ newLayout = "VK_IMAGE_LAYOUT_SHADER_READ_ONLY_OPTIMAL"
    THEN <<"VK_PIPELINE_STAGE_TRANSFER_BIT", "VK_PIPELINE_STAGE_FRAGMENT_SHADER_BIT">>
    ELSE IF oldLayout = "VK_IMAGE_LAYOUT_UNDEFINED"
            /\ newLayout = "VK_IMAGE_LAYOUT_DEPTH_STENCIL_ATTACHMENT_OPTIMAL"
    THEN <<"VK_PIPELINE_STAGE_TOP_OF_PIPE_BIT", "VK_PIPELINE_STAGE_EARLY_FRAGMENT_TESTS_BIT">>
    ELSE <<"VK_PIPELINE_STAGE_ALL_COMMANDS_BIT", "VK_PIPELINE_STAGE_ALL_COMMANDS_BIT">>

\* the if / else-if chain of transitionImageLayout: <<sourceStage,
\* destinationStage>>, or the else branch
TransitionStages(oldLayout, newLayout) ==
    IF oldLayout = "VK_IMAGE_LAYOUT_UNDEFINED"
       /\ newLayout = "VK_IMAGE_LAYOUT_TRANSFER_DST_OPTIMAL"
    THEN <<"VK_PIPELINE_STAGE_TOP_OF_PIPE_BIT", "VK_PIPELINE_STAGE_TRANSFER_BIT">>
    ELSE IF oldLayout = "VK_IMAGE_LAYOUT_TRANSFER_DST_OPTIMAL"
            /\ newLayout = "VK_IMAGE_LAYOUT_SHADER_READ_ONLY_OPTIMAL"
    THEN <<"VK_PIPELINE_STAGE_TRANSFER_BIT", "VK_PIPELINE_STAGE_FRAGMENT_SHADER_BIT">>
    ELSE IF oldLayout = "VK_IMAGE_LAYOUT_UNDEFINED"
            /\ newLayout = "VK_IMAGE_LAYOUT_DEPTH_STENCIL_ATTACHMENT_OPTIMAL"
    THEN <<"VK_PIPELINE_STAGE_TOP_OF_PIPE_BIT", "VK_PIPELINE_STAGE_EARLY_FRAGMENT_TESTS_BIT">>
    ELSE "unsupported"

\* variant of TransitionAccess: the masks stay as they are initialised
TransitionAccessZero(oldLayout, newLayout) == <<{}, {}>>

\* barrier.srcAccessMask and barrier.dstAccessMask as the if / else-if chain of
\* transitionImageLayout leaves them, each the set of its bits; both are 0
\* before the chain
TransitionAccess(oldLayout, newLayout) ==
    IF oldLayout = "VK_IMAGE_LAYOUT_UNDEFINED"
       /\ newLayout = "VK_IMAGE_LAYOUT_TRANSFER_DST_OPTIMAL"
    THEN <<{}, {"VK_ACCESS_TRANSFER_WRITE_BIT"}>>
    ELSE IF oldLayout = "VK_IMAGE_LAYOUT_TRANSFER_DST_OPTIMAL"
            /\ newLayout = "VK_IMAGE_LAYOUT_SHADER_READ_ONLY_OPTIMAL"
    THEN <<{"VK_ACCESS_TRANSFER_WRITE_BIT"}, {"VK_ACCESS_SHADER_READ_BIT"}>>
    ELSE IF oldLayout = "VK_IMAGE_LAYOUT_UNDEFINED"
            /\ newLayout = "VK_IMAGE_LAYOUT_DEPTH_STENCIL_ATTACHMENT_OPTIMAL"
    THEN <<{}, {"VK_ACCESS_DEPTH_STENCIL_ATTACHMENT_READ_BIT",
                "VK_ACCESS_DEPTH_STENCIL_ATTACHMENT_WRITE_BIT"}>>
    ELSE <<{}, {}>>

\* VulkanContext::transitionImageLayout: what the call has done when it returns
\* or throws.  beginSingleTimeCommands allocates and begins a command buffer;
\* the else branch throws before vkCmdPipelineBarrier and endSingleTimeCommands
\* (vkEndCommandBuffer, vkQueueSubmit, vkQueueWaitIdle, vkFreeCommandBuffers).
transitionImageLayout(oldLayout, newLayout) ==
    LET stages == TransitionStages(oldLayout, newLayout)
    IN IF stages = "unsupported"
       THEN [begun |-> TRUE, barrier |-> "none", barriers |-> <<>>, submitted |-> FALSE,
             freed |-> FALSE, fatal |-> "Unsupported layout transition!"]
       ELSE [begun |-> TRUE, barrier |-> stages,
             barriers |-> <<[oldLayout |-> oldLayout, newLayout |-> newLayout,
                             srcAccessMask |-> TransitionAccess(oldLayout, newLayout)[1],
                             dstAccessMask |-> TransitionAccess(oldLayout, newLayout)[2],
                             sourceStage |-> stages[1], destinationStage |-> stages[2]]>>,
             submitted |-> TRUE, freed |-> TRUE, fatal |-> "none"]

\* sizes of the textures loaded
TextureSizes == {1, 2, 3, 4, 7, 8, 300, 511, 512, 513, 1024}

\* std::floor(std::log2(n)) for an integer n >= 1
RECURSIVE FloorLog2(_)
FloorLog2(n) == IF n < 2 THEN 0 ELSE 1 + FloorLog2(n \div 2)

\* variant of MipLevels: the smaller side decides
MipLevelsOfSmallerSide(texWidth, texHeight) ==
    FloorLog2(IF texWidth < texHeight THEN texWidth ELSE texHeight) + 1

\* mipLevels of createTextureImage and Mesh3D::Mesh3D
MipLevels(texWidth, texHeight) == FloorLog2(Max(texWidth, texHeight)) + 1

CallChooseSwapSurfaceFormat ==
    /\ \E availableFormats \in SeqsOf(SurfaceFormats, 1, MaxFormats) :
         lastCall' = [fn |-> "chooseSwapSurfaceFormat", args |-> availableFormats,
                      result |-> chooseSwapSurfaceFormat(availableFormats)]
    /\ UNCHANGED <<runVars, loadVars>>

CallChooseSwapPresentMode ==
    /\ \E availablePresentModes \in SeqsOf(PresentModes, 0, MaxModes) :
         lastCall' = [fn |-> "chooseSwapPresentMode", args |-> availablePresentModes,
                      result |-> chooseSwapPresentMode(availablePresentModes)]
    /\ UNCHANGED <<runVars, loadVars>>

CallChooseSwapExtent ==
    /\ \E capabilities \in ExtentCapabilities, w \in DrawableWidths, h \in DrawableHeights :
         lastCall' = [fn |-> "chooseSwapExtent",
                      args |-> [capabilities |-> capabilities, width |-> w, height |-> h],
                      result |-> chooseSwapExtent(capabilities, w, h)]
    /\ UNCHANGED <<runVars, loadVars>>

CallRequestedImageCount ==
    /\ \E capabilities \in CountCapabilities :
         lastCall' = [fn |-> "imageCount", args |-> capabilities,
                      result |-> RequestedImageCount(capabilities)]
    /\ UNCHANGED <<runVars, loadVars>>

CallTransitionImageLayout ==
    /\ \E oldLayout \in ImageLayouts, newLayout \in ImageLayouts :
         lastCall' = [fn |-> "transitionImageLayout", args |-> <<oldLayout, newLayout>>,
                      result |-> transitionImageLayout(oldLayout, newLayout)]
    /\ UNCHANGED <<runVars, loadVars>>

CallMipLevels ==
    /\ \E texWidth \in TextureSizes, texHeight \in TextureSizes :
         lastCall' = [fn |-> "mipLevels", args |-> <<texWidth, texHeight>>,
                      result |-> MipLevels(texWidth, texHeight)]
    /\ UNCHANGED <<runVars, loadVars>>

\* ------------------------------------------------------------------------
\* Buffers, images and their memory
\* ------------------------------------------------------------------------
\* what vkCreateBuffer, vkCreateImage, vkAllocateMemory and vkBind*Memory return
AllocResults == {VK_SUCCESS, "VK_ERROR_OUT_OF_DEVICE_MEMORY"}

\* VulkanContext::createBuffer: the Vulkan calls made, in order, and the message
\* thrown.  "Failed to create buffer!" is printed with error = false and the
\* function goes on; the result of vkBindBufferMemory is not looked at.
createBuffer(createRes, typeFound, allocRes, bindRes) ==
    IF ~typeFound
    THEN [calls |-> <<"vkCreateBuffer", "vkGetBufferMemoryRequirements", "findMemoryType">>,
          fatal |-> "Failed to find suitable memory type!"]
    ELSE IF allocRes # VK_SUCCESS
    THEN [calls |-> <<"vkCreateBuffer", "vkGetBufferMemoryRequirements", "findMemoryType",
                      "vkAllocateMemory">>,
          fatal |-> "Failed to allocate buffer memory!"]
    ELSE [calls |-> <<"vkCreateBuffer", "vkGetBufferMemoryRequirements", "findMemoryType",
                      "vkAllocateMemory", "vkBindBufferMemory">>,
          fatal |-> "none"]

\* VulkanContext::createImage: a failed vkCreateImage is fatal; the result of
\* vkBindImageMemory is not looked at.
createImage(createRes, typeFound, allocRes, bindRes) ==
    IF createRes # VK_SUCCESS
    THEN [calls |-> <<"vkCreateImage">>, fatal |-> "Failed to create texture image!"]
    ELSE IF ~typeFound
    THEN [calls |-> <<"vkCreateImage", "vkGetImageMemoryRequirements", "findMemoryType">>,
          fatal |-> "Failed to find suitable memory type!"]
    ELSE IF allocRes # VK_SUCCESS
    THEN [calls |-> <<"vkCreateImage", "vkGetImageMemoryRequirements", "findMemoryType",
                      "vkAllocateMemory">>,
          fatal |-> "Failed to allocate texture image memory!"]
    ELSE [calls |-> <<"vkCreateImage", "vkGetImageMemoryRequirements", "findMemoryType",
                      "vkAllocateMemory", "vkBindImageMemory">>,
          fatal |-> "none"]

CallCreateBuffer ==
    /\ \E createRes \in AllocResults, typeFound \in BOOLEAN,
          allocRes \in AllocResults, bindRes \in AllocResults :
         lastCall' = [fn |-> "createBuffer",
                      args |-> [create |-> createRes, typeFound |-> typeFound,
                                allocate |-> allocRes, bind |-> bindRes],
                      result |-> createBuffer(createRes, typeFound, allocRes, bindRes)]
    /\ UNCHANGED <<runVars, loadVars>>

CallCreateImage ==
    /\ \E createRes \in AllocResults, typeFound \in BOOLEAN,
          allocRes \in AllocResults, bindRes \in AllocResults :
         lastCall' = [fn |-> "createImage",
                      args |-> [create |-> createRes, typeFound |-> typeFound,
                                allocate |-> allocRes, bind |-> bindRes],
                      result |-> createImage(createRes, typeFound, allocRes, bindRes)]
    /\ UNCHANGED <<runVars, loadVars>>

NextFn ==
    \/ CallChooseSwapSurfaceFormat
    \/ CallChooseSwapPresentMode
    \/ CallChooseSwapExtent
    \/ CallRequestedImageCount
    \/ CallTransitionImageLayout
    \/ CallMipLevels
    \/ CallCreateBuffer
    \/ CallCreateImage

\* the helper functions called with every input of the sets above
SpecFn == Init /\ [][NextFn]_vars

\* ------------------------------------------------------------------------
\* Queries of the physical device: findMemoryType, findQueueFamilies,
\* isDeviceSuitable, pickPhysicalDevice
\* ------------------------------------------------------------------------
MemoryPropertyFlags == {"VK_MEMORY_PROPERTY_DEVICE_LOCAL_BIT",
                        "VK_MEMORY_PROPERTY_HOST_VISIBLE_BIT",
                        "VK_MEMORY_PROPERTY_HOST_COHERENT_BIT"}

\* the property masks createBuffer and createImage are called with
RequestedProperties == {{"VK_MEMORY_PROPERTY_DEVICE_LOCAL_BIT"},
                        {"VK_MEMORY_PROPERTY_HOST_VISIBLE_BIT",
                         "VK_MEMORY_PROPERTY_HOST_COHERENT_BIT"}}

\* VkPhysicalDeviceMemoryProperties: memoryTypes is an array, of which the
\* first memoryTypeCount entries are valid
MemoryProperties ==
    [memoryTypeCount : 0 .. MaxMemoryTypes,
     memoryTypes : [0 .. MaxMemoryTypes - 1 -> SUBSET MemoryPropertyFlags]]

\* typeFilter & (1 << i)
BitSet(typeFilter, i) == (typeFilter \div (2 ^ i)) % 2 = 1

\* the loop of findMemoryType from index i on
RECURSIVE FirstMemoryTypeFrom(_, _, _, _)
FirstMemoryTypeFrom(typeFilter, properties, memProperties, i) ==
    IF ~(i < memProperties.memoryTypeCount)
    THEN [index |-> 0, fatal |-> "Failed to find suitable memory type!"]
    ELSE IF BitSet(typeFilter, i) /\ properties \subseteq memProperties.memoryTypes[i]
         THEN [index |-> i, fatal |-> "none"]
         ELSE FirstMemoryTypeFrom(typeFilter, properties, memProperties, i + 1)

\* variant of findMemoryType: the type filter is not looked at
findMemoryTypeAnyType(typeFilter, properties, memProperties) ==
    FirstMemoryTypeFrom(2 ^ MaxMemoryTypes - 1, properties, memProperties, 0)

\* VulkanContext::findMemoryType; memProperties: what
\* vkGetPhysicalDeviceMemoryProperties reports
findMemoryType(typeFilter, properties, memProperties) ==
    FirstMemoryTypeFrom(typeFilter, properties, memProperties, 0)

\* std::optional<uint32_t> without a value
NoFamily == -1

\* a queue family: VK_QUEUE_GRAPHICS_BIT in queueFlags, and what
\* vkGetPhysicalDeviceSurfaceSupportKHR reports for it
QueueFamilies == [graphics : BOOLEAN, present : BOOLEAN]

\* QueueFamilyIndices::isComplete
isComplete(indices) == indices.graphicsFamily # NoFamily /\ indices.presentFamily # NoFamily

\* the loop of findQueueFamilies from i on (the family at i is element i + 1)
RECURSIVE QueueFamiliesFrom(_, _, _)
QueueFamiliesFrom(queueFamilies, i, indices) ==
    IF ~(i < Len(queueFamilies)) THEN indices
    ELSE LET found == [graphicsFamily |-> IF queueFamilies[i + 1].graphics
                                          THEN i ELSE indices.graphicsFamily,
                       presentFamily |-> IF queueFamilies[i + 1].present
                                         THEN i ELSE indices.presentFamily]
         IN IF isComplete(found) THEN found
            ELSE QueueFamiliesFrom(queueFamilies, i + 1, found)

\* the loop of the variant below
RECURSIVE QueueFamiliesBothFrom(_, _)
QueueFamiliesBothFrom(queueFamilies, i) ==
    IF ~(i < Len(queueFamilies))
    THEN [graphicsFamily |-> NoFamily, presentFamily |-> NoFamily]
    ELSE IF queueFamilies[i + 1].graphics /\ queueFamilies[i + 1].present
         THEN [graphicsFamily |-> i, presentFamily |-> i]
         ELSE QueueFamiliesBothFrom(queueFamilies, i + 1)

\* variant of findQueueFamilies: one family has to support both
findQueueFamiliesSameFamily(queueFamilies) == QueueFamiliesBothFrom(queueFamilies, 0)

\* VulkanContext::findQueueFamilies; queueFamilies: the families of the device
findQueueFamilies(queueFamilies) ==
    QueueFamiliesFrom(queueFamilies, 0,
                      [graphicsFamily |-> NoFamily, presentFamily |-> NoFamily])

\* the physical devices vkEnumeratePhysicalDevices reports: queue families,
\* whether VK_KHR_swapchain is among the extensions, how many surface formats
\* and present modes, the samplerAnisotropy feature
PhysicalDevices ==
    [queueFamilies : {<<[graphics |-> TRUE, present |-> TRUE]>>,
                      <<[graphics |-> TRUE, present |-> FALSE]>>},
     swapchainExtension : BOOLEAN,
     formatCount : 0 .. 1,
     presentModeCount : 0 .. 1,
     samplerAnisotropy : BOOLEAN]

\* variant of isDeviceSuitable: samplerAnisotropy is not asked for
isDeviceSuitableWithoutAnisotropy(device) ==
    LET indices == findQueueFamilies(device.queueFamilies)
        extensionsSupported == device.swapchainExtension
        swapchainAdequate == IF extensionsSupported
                             THEN device.formatCount # 0 /\ device.presentModeCount # 0
                             ELSE FALSE
    IN isComplete(indices) /\ extensionsSupported /\ swapchainAdequate

\* VulkanContext::isDeviceSuitable
isDeviceSuitable(device) ==
    LET indices == findQueueFamilies(device.queueFamilies)
        extensionsSupported == device.swapchainExtension
        swapchainAdequate == IF extensionsSupported
                             THEN device.formatCount # 0 /\ device.presentModeCount # 0
                             ELSE FALSE
    IN isComplete(indices) /\ extensionsSupported /\ swapchainAdequate
       /\ device.samplerAnisotropy

\* the loop of pickPhysicalDevice from element i on: the position of the
\* device picked, 0 for VK_NULL_HANDLE
RECURSIVE FirstSuitableFrom(_, _)
FirstSuitableFrom(devices, i) ==
    IF i > Len(devices) THEN 0
    ELSE IF isDeviceSuitable(devices[i]) THEN i
    ELSE FirstSuitableFrom(devices, i + 1)

\* VulkanContext::pickPhysicalDevice; devices: what vkEnumeratePhysicalDevices
\* reports
pickPhysicalDevice(devices) ==
    IF Len(devices) = 0
    THEN [physicalDevice |-> 0, fatal |-> "Failed to find any GPUs with Vulkan support!"]
    ELSE LET picked == FirstSuitableFrom(devices, 1)
         IN [physicalDevice |-> picked,
             fatal |-> IF picked = 0 THEN "Failed to find a suitable GPU!" ELSE "none"]

CallFindMemoryType ==
    /\ lastCall = NoCall
    /\ \E typeFilter \in 0 .. 2 ^ MaxMemoryTypes - 1, properties \in RequestedProperties,
          memProperties \in MemoryProperties :
         lastCall' = [fn |-> "findMemoryType",
                      args |-> [typeFilter |-> typeFilter, properties |-> properties,
                                memProperties |-> memProperties],
                      result |-> findMemoryType(typeFilter, properties, memProperties)]
    /\ UNCHANGED <<runVars, loadVars>>

CallFindQueueFamilies ==
    /\ lastCall = NoCall
    /\ \E queueFamilies \in SeqsOf(QueueFamilies, 0, MaxFamilies) :
         lastCall' = [fn |-> "findQueueFamilies", args |-> queueFamilies,
                      result |-> findQueueFamilies(queueFamilies)]
    /\ UNCHANGED <<runVars, loadVars>>

CallPickPhysicalDevice ==
    /\ lastCall = NoCall
    /\ \E devices \in SeqsOf(PhysicalDevices, 0, MaxDevices) :
         lastCall' = [fn |-> "pickPhysicalDevice", args |-> devices,
                      result |-> pickPhysicalDevice(devices)]
    /\ UNCHANGED <<runVars, loadVars>>

NextDevice ==
    \/ CallFindMemoryType
    \/ CallFindQueueFamilies
    \/ CallPickPhysicalDevice

\* each query called once, with every input of the sets above
SpecDevice == Init /\ [][NextDevice]_vars

\* ------------------------------------------------------------------------
\* Loading textures, vertex, index and uniform buffers (initVulkan), and the
\* frames that read them
\* ------------------------------------------------------------------------
\* the loading functions in the order initVulkan calls them
Jobs == <<"createTextureImage", "createTextureImage2",
          "createVertexBuffer", "createVertexBuffer2",
          "createIndexBuffer", "createIndexBuffer2",
          "createUniformBuffers", "createUniformBuffers2">>

IsTexture(j) == j <= Len(Jobs) /\ Jobs[j] \in {"createTextureImage", "createTextureImage2"}
IsUniform(j) == j <= Len(Jobs) /\ Jobs[j] \in {"createUniformBuffers", "createUniformBuffers2"}

\* sizes stbi_load reports
LoadWidths == {1, 2, 5, 8}
LoadHeights == {1, 3, 8}

\* where function j starts; after the last one the frames are drawn
FirstStep(j) ==
    IF j > Len(Jobs) THEN "frames"
    ELSE IF IsTexture(j) THEN "stbi_load"
    ELSE IF IsUniform(j) THEN "uniform"
    ELSE "staging"

Staging == <<job, "staging", 0>>
Target == <<job, "target", 0>>

\* a buffer or image with its memory, as createBuffer / createImage leave it
NewResource(memory, usage) ==
    [memory |-> memory, usage |-> usage, mapped |-> FALSE, everMapped |-> FALSE,
     written |-> FALSE, source |-> "none", filled |-> FALSE, alive |-> TRUE]

WithResource(id, r) ==
    [x \in DOMAIN resources \cup {id} |-> IF x = id THEN r ELSE resources[x]]

\* what a submission finds when it reads resource id
Snapshot(id) ==
    [id |-> id, memory |-> resources[id].memory, usage |-> resources[id].usage,
     mapped |-> resources[id].mapped, everMapped |-> resources[id].everMapped,
     written |-> resources[id].written, alive |-> resources[id].alive]

\* the calls evs are made; the log starts again with each function
Logged(evs) ==
    loadLog' = IF step = FirstStep(job) /\ sub = "none" /\ uniformIndex = 0
               THEN evs ELSE loadLog \o evs

LoadThrow(msg) == loadFatal' = msg /\ step' = "aborted" /\ sub' = "none"

\* variant of HalfOrOne: halved without the floor of 1
Half(n) == n \div 2

\* mipWidth > 1 ? mipWidth / 2 : 1
HalfOrOne(n) == IF n > 1 THEN n \div 2 ELSE 1

\* createTextureImage up to mipLevels: stbi_load and the level count
stbiLoad ==
    /\ step = "stbi_load"
    /\ \E ok \in BOOLEAN, w \in LoadWidths, h \in LoadHeights :
         IF ok
         THEN /\ textureWidth' = w /\ textureHeight' = h
              /\ mipLevels' = MipLevels(w, h)
              /\ step' = "staging"
              /\ UNCHANGED <<sub, loadFatal>>
         ELSE /\ LoadThrow("Failed to load texture image!")
              /\ UNCHANGED texVars
    /\ Logged(<<"stbi_load">>)
    /\ UNCHANGED <<job, resVars, cmdVars, mipVars, loopVars>>
    /\ UNCHANGED <<runVars, lastCall>>

\* createBuffer(size, TRANSFER_SRC, HOST_VISIBLE | HOST_COHERENT, stagingBuffer, ...)
CreateStagingBuffer ==
    /\ step = "staging"
    /\ \E ok \in BOOLEAN :
         IF ok
         THEN /\ resources' = WithResource(Staging, NewResource("host", "staging"))
              /\ step' = "map"
              /\ UNCHANGED <<sub, loadFatal>>
         ELSE /\ LoadThrow("Failed to allocate buffer memory!")
              /\ UNCHANGED resources
    /\ Logged(<<"createBuffer">>)
    /\ UNCHANGED <<job, reads, cmdVars, texVars, mipVars, loopVars>>
    /\ UNCHANGED <<runVars, lastCall>>

\* vkMapMemory(device, stagingBufferMemory, 0, size, 0, &data)
MapMemory ==
    /\ step = "map"
    /\ resources' = WithResource(Staging, [resources[Staging] EXCEPT !.mapped = TRUE,
                                                                     !.everMapped = TRUE])
    /\ step' = "memcpy"
    /\ Logged(<<"vkMapMemory">>)
    /\ UNCHANGED <<job, sub, loadFatal, reads, cmdVars, texVars, mipVars, loopVars>>
    /\ UNCHANGED <<runVars, lastCall>>

\* memcpy(data, payload, size)
Memcpy ==
    /\ step = "memcpy"
    /\ resources' = WithResource(Staging, [resources[Staging] EXCEPT !.written = TRUE])
    /\ step' = "unmap"
    /\ Logged(<<"memcpy">>)
    /\ UNCHANGED <<job, sub, loadFatal, reads, cmdVars, texVars, mipVars, loopVars>>
    /\ UNCHANGED <<runVars, lastCall>>

\* variant of UnmapMemory: the staging memory stays mapped
UnmapMemorySkipped ==
    /\ step = "unmap"
    /\ step' = "target"
    /\ Logged(<<"vkUnmapMemory">>)
    /\ UNCHANGED <<job, sub, loadFatal, resVars, cmdVars, texVars, mipVars, loopVars>>
    /\ UNCHANGED <<runVars, lastCall>>

\* vkUnmapMemory(device, stagingBufferMemory)
UnmapMemory ==
    /\ step = "unmap"
    /\ resources' = WithResource(Staging, [resources[Staging] EXCEPT !.mapped = FALSE])
    /\ step' = "target"
    /\ Logged(<<"vkUnmapMemory">>)
    /\ UNCHANGED <<job, sub, loadFatal, reads, cmdVars, texVars, mipVars, loopVars>>
    /\ UNCHANGED <<runVars, lastCall>>

\* createImage(..., DEVICE_LOCAL, textureImage, ...) in createTextureImage;
\* createBuffer(..., DEVICE_LOCAL, vertexBuffer / indexBuffer, ...) otherwise
CreateTarget ==
    /\ step = "target"
    /\ \E ok \in BOOLEAN :
         IF ok
         THEN /\ resources' = WithResource(Target,
                    NewResource("device", IF IsTexture(job) THEN "texture" ELSE "geometry"))
              /\ mipLayout' = IF IsTexture(job)
                              THEN [l \in 0 .. mipLevels - 1 |-> "VK_IMAGE_LAYOUT_UNDEFINED"]
                              ELSE mipLayout
              /\ step' = IF IsTexture(job) THEN "transition" ELSE "copy"
              /\ sub' = "begin"
              /\ UNCHANGED loadFatal
         ELSE /\ LoadThrow(IF IsTexture(job) THEN "Failed to allocate texture image memory!"
                                             ELSE "Failed to allocate buffer memory!")
              /\ UNCHANGED <<resources, mipLayout>>
    /\ Logged(<<IF IsTexture(job) THEN "createImage" ELSE "createBuffer">>)
    /\ UNCHANGED <<job, reads, cmdVars, texVars, mipI, mipWidth, mipHeight, blits,
                   mipBarriers, loopVars>>
    /\ UNCHANGED <<runVars, lastCall>>

\* VulkanContext::beginSingleTimeCommands
beginSingleTimeCommands ==
    /\ sub = "begin"
    /\ oneShot' = "recording" /\ cmdReads' = {} /\ cmdWrites' = {}
    /\ sub' = "record"
    /\ Logged(<<"vkAllocateCommandBuffers", "vkBeginCommandBuffer">>)
    /\ UNCHANGED <<job, step, loadFatal, resVars, queueBusy, texVars, mipVars, loopVars>>
    /\ UNCHANGED <<runVars, lastCall>>

\* transitionImageLayout(textureImage, format, UNDEFINED, TRANSFER_DST_OPTIMAL,
\* mipLevels): the barrier covers levels 0 .. mipLevels - 1
CmdTransitionBarrier ==
    /\ step = "transition" /\ sub = "record"
    /\ IF TransitionStages("VK_IMAGE_LAYOUT_UNDEFINED",
                           "VK_IMAGE_LAYOUT_TRANSFER_DST_OPTIMAL") = "unsupported"
       THEN /\ LoadThrow("Unsupported layout transition!")
            /\ UNCHANGED <<mipLayout, loadLog>>
       ELSE /\ mipLayout' = [l \in DOMAIN mipLayout |-> "VK_IMAGE_LAYOUT_TRANSFER_DST_OPTIMAL"]
            /\ sub' = "end"
            /\ Logged(<<"vkCmdPipelineBarrier">>)
            /\ UNCHANGED <<step, loadFatal>>
    /\ UNCHANGED <<job, resVars, cmdVars, texVars, mipI, mipWidth, mipHeight, blits,
                   mipBarriers, loopVars>>
    /\ UNCHANGED <<runVars, lastCall>>

\* vkCmdCopyBufferToImage in copyBufferToImage, vkCmdCopyBuffer in copyBuffer
CmdCopy ==
    /\ step = "copy" /\ sub = "record"
    /\ cmdReads' = {Staging} /\ cmdWrites' = {Target}
    /\ resources' = WithResource(Target, [resources[Target] EXCEPT !.source = Staging])
    /\ sub' = "end"
    /\ Logged(<<IF IsTexture(job) THEN "vkCmdCopyBufferToImage" ELSE "vkCmdCopyBuffer">>)
    /\ UNCHANGED <<job, step, loadFatal, reads, oneShot, queueBusy, texVars, mipVars, loopVars>>
    /\ UNCHANGED <<runVars, lastCall>>

\* generateMipmaps up to beginSingleTimeCommands: the linear-filter check
generateMipmaps ==
    /\ step = "mipmaps" /\ sub = "check"
    /\ \E linear \in BOOLEAN :
         IF linear
         THEN /\ sub' = "begin"
              /\ mipI' = 1 /\ mipWidth' = textureWidth /\ mipHeight' = textureHeight
              /\ blits' = <<>> /\ mipBarriers' = <<>>
              /\ UNCHANGED <<step, loadFatal>>
         ELSE /\ LoadThrow("Texture image format does not support linear blitting!")
              /\ UNCHANGED <<mipI, mipWidth, mipHeight, blits, mipBarriers>>
    /\ UNCHANGED <<job, resVars, cmdVars, texVars, mipLayout, loopVars, loadLog>>
    /\ UNCHANGED <<runVars, lastCall>>

\* a barrier of generateMipmaps on one level: declared old layout, the layout
\* the level has, new layout
Barrier(level, oldLayout, newLayout) ==
    /\ mipBarriers' = Append(mipBarriers, [level |-> level, oldLayout |-> oldLayout,
                                           was |-> mipLayout[level], newLayout |-> newLayout])
    /\ mipLayout' = [mipLayout EXCEPT ![level] = newLayout]

\* loop body, first barrier: level i - 1 from TRANSFER_DST to TRANSFER_SRC
MipBarrierToSrc ==
    /\ step = "mipmaps" /\ sub = "record" /\ mipI < mipLevels
    /\ Barrier(mipI - 1, "VK_IMAGE_LAYOUT_TRANSFER_DST_OPTIMAL",
               "VK_IMAGE_LAYOUT_TRANSFER_SRC_OPTIMAL")
    /\ sub' = "blit"
    /\ Logged(<<"vkCmdPipelineBarrier">>)
    /\ UNCHANGED <<job, step, loadFatal, resVars, cmdVars, texVars, mipI, mipWidth,
                   mipHeight, blits, loopVars>>
    /\ UNCHANGED <<runVars, lastCall>>

\* loop body: vkCmdBlitImage from level i - 1 to level i
MipBlit ==
    /\ step = "mipmaps" /\ sub = "blit"
    /\ blits' = Append(blits,
           [srcLevel |-> mipI - 1, dstLevel |-> mipI,
            srcLayout |-> mipLayout[mipI - 1], dstLayout |-> mipLayout[mipI],
            srcSize |-> <<mipWidth, mipHeight>>,
            dstSize |-> <<HalfOrOne(mipWidth), HalfOrOne(mipHeight)>>])
    /\ sub' = "toRead"
    /\ Logged(<<"vkCmdBlitImage">>)
    /\ UNCHANGED <<job, step, loadFatal, resVars, cmdVars, texVars, mipLayout, mipI,
                   mipWidth, mipHeight, mipBarriers, loopVars>>
    /\ UNCHANGED <<runVars, lastCall>>

\* loop body, second barrier: level i - 1 from TRANSFER_SRC to
\* SHADER_READ_ONLY; then mipWidth, mipHeight are halved and i incremented
MipBarrierToShaderRead ==
    /\ step = "mipmaps" /\ sub = "toRead"
    /\ Barrier(mipI - 1, "VK_IMAGE_LAYOUT_TRANSFER_SRC_OPTIMAL",
               "VK_IMAGE_LAYOUT_SHADER_READ_ONLY_OPTIMAL")
    /\ mipWidth' = (IF mipWidth > 1 THEN mipWidth \div 2 ELSE mipWidth)
    /\ mipHeight' = (IF mipHeight > 1 THEN mipHeight \div 2 ELSE mipHeight)
    /\ mipI' = mipI + 1
    /\ sub' = "record"
    /\ Logged(<<"vkCmdPipelineBarrier">>)
    /\ UNCHANGED <<job, step, loadFatal, resVars, cmdVars, texVars, blits, loopVars>>
    /\ UNCHANGED <<runVars, lastCall>>

\* after the loop: level mipLevels - 1 from TRANSFER_DST to SHADER_READ_ONLY
MipLastBarrier ==
    /\ step = "mipmaps" /\ sub = "record" /\ ~(mipI < mipLevels)
    /\ Barrier(mipLevels - 1, "VK_IMAGE_LAYOUT_TRANSFER_DST_OPTIMAL",
               "VK_IMAGE_LAYOUT_SHADER_READ_ONLY_OPTIMAL")
    /\ sub' = "end"
    /\ Logged(<<"vkCmdPipelineBarrier">>)
    /\ UNCHANGED <<job, step, loadFatal, resVars, cmdVars, texVars, mipI, mipWidth,
                   mipHeight, blits, loopVars>>
    /\ UNCHANGED <<runVars, lastCall>>

\* VulkanContext::endSingleTimeCommands up to vkQueueWaitIdle:
\* vkEndCommandBuffer and vkQueueSubmit
endSingleTimeCommands ==
    /\ sub = "end"
    /\ oneShot' = "pending" /\ queueBusy' = TRUE
    /\ reads' = reads \cup {Snapshot(id) : id \in cmdReads}
    /\ sub' = "wait"
    /\ Logged(<<"vkEndCommandBuffer", "vkQueueSubmit">>)
    /\ UNCHANGED <<job, step, loadFatal, resources, cmdReads, cmdWrites, texVars, mipVars,
                   loopVars>>
    /\ UNCHANGED <<runVars, lastCall>>

\* the graphics queue completes the one-shot submission
TransferComplete ==
    /\ queueBusy
    /\ queueBusy' = FALSE
    /\ resources' = [x \in DOMAIN resources |->
                       IF x \in cmdWrites THEN [resources[x] EXCEPT !.filled = TRUE]
                       ELSE resources[x]]
    /\ UNCHANGED <<progVars, reads, oneShot, cmdReads, cmdWrites, texVars, mipVars, loopVars,
                   loadLog>>
    /\ UNCHANGED <<runVars, lastCall>>

\* where the caller of endSingleTimeCommands goes on
AfterOneShot ==
    IF step = "transition" THEN step' = "copy" /\ sub' = "begin"
    ELSE IF step = "copy" /\ IsTexture(job) THEN step' = "mipmaps" /\ sub' = "check"
    ELSE step' = "destroy" /\ sub' = "none"

\* variant of QueueWaitIdleReturns: endSingleTimeCommands does not wait
QueueWaitIdleSkipped ==
    /\ sub = "wait"
    /\ oneShot' = "none"
    /\ AfterOneShot
    /\ Logged(<<"vkFreeCommandBuffers">>)
    /\ UNCHANGED <<job, loadFatal, resVars, cmdReads, cmdWrites, queueBusy, texVars, mipVars,
                   loopVars>>
    /\ UNCHANGED <<runVars, lastCall>>

\* the rest of endSingleTimeCommands: vkQueueWaitIdle returns once the queue
\* is idle, then vkFreeCommandBuffers
QueueWaitIdleReturns ==
    /\ sub = "wait" /\ ~queueBusy
    /\ oneShot' = "none"
    /\ AfterOneShot
    /\ Logged(<<"vkQueueWaitIdle", "vkFreeCommandBuffers">>)
    /\ UNCHANGED <<job, loadFatal, resVars, cmdReads, cmdWrites, queueBusy, texVars, mipVars,
                   loopVars>>
    /\ UNCHANGED <<runVars, lastCall>>

\* vkDestroyBuffer(device, stagingBuffer, nullptr); vkFreeMemory(device,
\* stagingBufferMemory, nullptr); the function returns
DestroyStagingBuffer ==
    /\ step = "destroy"
    /\ resources' = WithResource(Staging, [resources[Staging] EXCEPT !.alive = FALSE])
    /\ job' = job + 1 /\ step' = FirstStep(job + 1)
    /\ Logged(<<"vkDestroyBuffer", "vkFreeMemory">>)
    /\ UNCHANGED <<sub, loadFatal, reads, cmdVars, texVars, mipVars, loopVars>>
    /\ UNCHANGED <<runVars, lastCall>>

\* one iteration of the loop of createUniformBuffers: createBuffer(...,
\* UNIFORM_BUFFER, HOST_VISIBLE | HOST_COHERENT, ...) and vkMapMemory
createUniformBuffers ==
    /\ step = "uniform"
    /\ \E ok \in BOOLEAN :
         IF ok
         THEN /\ resources' = WithResource(<<job, "uniform", uniformIndex>>,
                    [NewResource("host", "uniform") EXCEPT !.mapped = TRUE,
                                                           !.everMapped = TRUE])
              /\ IF uniformIndex + 1 < MAX_FRAMES_IN_FLIGHT
                 THEN uniformIndex' = uniformIndex + 1 /\ UNCHANGED <<job, step>>
                 ELSE uniformIndex' = 0 /\ job' = job + 1 /\ step' = FirstStep(job + 1)
              /\ UNCHANGED <<sub, loadFatal>>
         ELSE /\ LoadThrow("Failed to allocate buffer memory!")
              /\ UNCHANGED <<job, resources, uniformIndex>>
    /\ Logged(<<"createBuffer", "vkMapMemory">>)
    /\ UNCHANGED <<reads, cmdVars, texVars, mipVars, frameSlot>>
    /\ UNCHANGED <<runVars, lastCall>>

UniformBuffersOf(slot) ==
    {id \in DOMAIN resources : resources[id].usage = "uniform" /\ id[3] = slot}

\* updateUniformBuffer(currentFrame); updateUniformBuffer2(currentFrame):
\* memcpy into uniformBuffersMapped[currentFrame]
UpdateUniformBuffers ==
    /\ step = "frames" /\ sub = "none"
    /\ resources' = [x \in DOMAIN resources |->
                       IF x \in UniformBuffersOf(frameSlot)
                       THEN [resources[x] EXCEPT !.written = TRUE]
                       ELSE resources[x]]
    /\ sub' = "submit"
    /\ UNCHANGED <<job, step, loadFatal, reads, cmdVars, texVars, mipVars, loopVars, loadLog>>
    /\ UNCHANGED <<runVars, lastCall>>

\* vkQueueSubmit of drawFrame: the draw reads the vertex and index buffers,
\* the textures and the slot's uniform buffers; then currentFrame advances
SubmitFrame ==
    /\ step = "frames" /\ sub = "submit"
    /\ reads' = reads \cup
           {Snapshot(id) : id \in UniformBuffersOf(frameSlot) \cup
                {x \in DOMAIN resources : resources[x].usage \in {"texture", "geometry"}}}
    /\ frameSlot' = (frameSlot + 1) % MAX_FRAMES_IN_FLIGHT
    /\ sub' = "none"
    /\ UNCHANGED <<job, step, loadFatal, resources, cmdVars, texVars, mipVars, uniformIndex,
                   loadLog>>
    /\ UNCHANGED <<runVars, lastCall>>

NextLoad ==
    \/ stbiLoad
    \/ CreateStagingBuffer
    \/ MapMemory
    \/ Memcpy
    \/ UnmapMemory
    \/ CreateTarget
    \/ beginSingleTimeCommands
    \/ CmdTransitionBarrier
    \/ CmdCopy
    \/ generateMipmaps
    \/ MipBarrierToSrc
    \/ MipBlit
    \/ MipBarrierToShaderRead
    \/ MipLastBarrier
    \/ endSingleTimeCommands
    \/ TransferComplete
    \/ QueueWaitIdleReturns
    \/ DestroyStagingBuffer
    \/ createUniformBuffers
    \/ UpdateUniformBuffers
    \/ SubmitFrame

\* the loading part of initVulkan followed by frames
SpecLoad == Init /\ [][NextLoad]_vars

\* ------------------------------------------------------------------------
\* Reading the history of the current drawFrame call
\* ------------------------------------------------------------------------
\* the calls made so far in this drawFrame
Calls == {frameLog[i][1] : i \in 1 .. Len(frameLog)}

\* the call was made in this drawFrame and returned res
Returned(call, res) == \E i \in 1 .. Len(frameLog) : frameLog[i] = <<call, res>>

\* call a was made and call b was made later in this drawFrame
Before(a, b) ==
    \E i, j \in 1 .. Len(frameLog) : i < j /\ frameLog[i][1] = a /\ frameLog[j][1] = b

\* the CPU thread took a step of its own (pc changes in every CPU step)
CpuStep == pc' # pc

\* positions of recreateSwapchain from vkDeviceWaitIdle on
RecreateBody == {"deviceWaitIdle", "cleanupSwapchain", "createSwapchain", "createImageViews",
                 "createColorResources", "createDepthResources", "createFramebuffers"}

\* positions where a swapchain build (of initVulkan or recreateSwapchain) is under way
BuildSteps == {"initVulkan", "createSwapchain", "createImageViews", "createGraphicsPipeline",
               "createColorResources", "createDepthResources", "createFramebuffers"}

\* everything a pending submission's command buffer references of the swapchain:
\* its framebuffer, the framebuffer's attachment views and the images and memory
\* behind the color and depth views
BackingOf(view) ==
    IF view[1] = "colorImageView"
    THEN {H("colorImage", view[2], 0), H("colorImageMemory", view[2], 0)}
    ELSE IF view[1] = "depthImageView"
    THEN {H("depthImage", view[2], 0), H("depthImageMemory", view[2], 0)}
    ELSE {H("swapchain", view[2], 0)}

References(p) ==
    {p.framebuffer} \cup fbAttachments[p.framebuffer]
    \cup UNION {BackingOf(v) : v \in fbAttachments[p.framebuffer]}

\* the swapchain-derived objects made by build b
BuildObjects(b) == {h \in created : h[2] = b}

\* ========================================================================
\* Claims
\* ========================================================================

C2_OutOfDateAcquireAbandons ==
    /\ [](Returned("vkAcquireNextImageKHR", VK_ERROR_OUT_OF_DATE_KHR) =>
            /\ Calls \subseteq {"vkWaitForFences", "vkAcquireNextImageKHR", "recreateSwapchain"}
            /\ (pc = "recreateSwapchain" \/ "recreateSwapchain" \in Calls)
            /\ currentFrame = slotAtEntry
            /\ inFlightFences[currentFrame]
            /\ commandBuffers[currentFrame] \in {"initial", "executable"}
            /\ pc \notin {"advance", "run"})
    /\ [][(pc = "return" /\ CpuStep) =>
            (/\ Returned("vkAcquireNextImageKHR", VK_ERROR_OUT_OF_DATE_KHR)
             /\ pc' = "run"
             /\ currentFrame' = slotAtEntry
             /\ UNCHANGED <<inFlightFences, commandBuffers, pending>>)]_vars

\* the recreation after an out-of-date acquire is done and drawFrame is at its
\* return
C2_AbandonedAfterRecreation ==
    /\ pc = "return"
    /\ Returned("vkAcquireNextImageKHR", VK_ERROR_OUT_OF_DATE_KHR)
    /\ "recreateSwapchain" \in Calls
    /\ builds > 1

\* C3: when vkQueuePresentKHR returns out-of-date or suboptimal, or
\* framebufferResized is set, the next thing drawFrame does is call
\* recreateSwapchain, after the vkQueueSubmit of the same call, and
\* framebufferResized is false from then on in that call.
C3_PresentTriggersRecreation ==
    /\ [][(/\ pc = "queuePresent"
            /\ CpuStep
            /\ (result' \in {VK_ERROR_OUT_OF_DATE_KHR, VK_SUBOPTIMAL_KHR} \/ framebufferResized))
          => (/\ pc' = "recreateSwapchain"
              /\ ~framebufferResized'
              /\ Returned("vkQueueSubmit", VK_SUCCESS))]_vars
    /\ [](\A res \in {VK_ERROR_OUT_OF_DATE_KHR, VK_SUBOPTIMAL_KHR} :
            Returned("vkQueuePresentKHR", res) =>
               /\ Before("vkQueueSubmit", "vkQueuePresentKHR")
               /\ (pc = "recreateSwapchain" \/ Before("vkQueuePresentKHR", "recreateSwapchain"))
               /\ ~framebufferResized)

\* a frame whose present returned suboptimal has recreated the swapchain and
\* is about to advance currentFrame
C3_RecreatedAfterSuboptimalPresent ==
    /\ pc = "advance"
    /\ Returned("vkQueuePresentKHR", VK_SUBOPTIMAL_KHR)
    /\ Before("vkQueuePresentKHR", "recreateSwapchain")
    /\ builds > 1

C5_TransientResultsNotFatal ==
    /\ [][(/\ pc \in {"acquire", "queuePresent"}
            /\ CpuStep
            /\ result' \in {VK_ERROR_OUT_OF_DATE_KHR, VK_SUBOPTIMAL_KHR})
          => (pc' # "aborted" /\ fatal' = "none")]_vars
    /\ [](fatal \in {"Failed to acquire swap chain image!",
                     "Failed to present swap chain image!"}
            => result = VK_ERROR)

\* a frame that got suboptimal from acquire and out-of-date from present is
\* about to return
C5_FrameReturnsAfterTransientResults ==
    /\ pc = "advance"
    /\ fatal = "none"
    /\ Returned("vkAcquireNextImageKHR", VK_SUBOPTIMAL_KHR)
    /\ Returned("vkQueuePresentKHR", VK_ERROR_OUT_OF_DATE_KHR)

\* C6: every call of the frame that returned a failure other than
\* out-of-date/suboptimal is the last call of the frame, and the fatal
\* diagnostic has been raised.
C6_EveryFailureIsFatal ==
    \A i \in 1 .. Len(frameLog) :
        frameLog[i][2] = VK_ERROR =>
            /\ i = Len(frameLog)
            /\ pc = "aborted"
            /\ fatal # "none"

C8_PerImageArraysAgree ==
    (pc \notin BuildSteps \cup {"aborted"}) =>
        /\ Len(swapchainImages) = queriedImageCount
        /\ Len(swapchainImageViews) = queriedImageCount
        /\ Len(swapchainFramebuffers) = queriedImageCount

\* a recreation has completed whose swapchain has 3 images where the one
\* before had 2
C8_ImageCountChanged ==
    /\ pc = "advance"
    /\ builds = 2
    /\ Len(swapchainFramebuffers) = 3
    /\ H("framebuffer", 1, 3) \notin created
    /\ H("framebuffer", 1, 2) \in destroyed

\* C9: each cleanupSwapchain destroys exactly the swapchain-derived objects the
\* previous build created, nothing is ever destroyed twice or without having
\* been created, and after cleanup every created object has been destroyed
\* exactly once: created and destroyed sets and call counts are equal.
C9_CreateDestroyBalanced ==
    /\ [][(pc = "cleanupSwapchain" /\ CpuStep) =>
            (/\ destroyed' \ destroyed = BuildObjects(builds)
             /\ destroyCalls' - destroyCalls = Cardinality(BuildObjects(builds))
             /\ created' = created)]_vars
    /\ [](~doubleFree)
    /\ [](pc = "done" =>
            /\ destroyed = created
            /\ destroyCalls = createCalls
            /\ Live = {})

\* the program has ended after one recreation and everything is destroyed
C9_CleanShutdownAfterRecreation ==
    /\ pc = "done"
    /\ builds = 2
    /\ destroyed = created
    /\ H("swapchain", 1, 0) \in destroyed /\ H("swapchain", 2, 0) \in destroyed

\* C10: while the size recreateSwapchain has observed is zero in a dimension,
\* it stays in its wait loop (or throws on a failed SDL_WaitEvent), gets past
\* SDL_WaitEvent only with an event in the queue, and creates and destroys
\* nothing; from vkDeviceWaitIdle on, the size it observed is nonzero in both
\* dimensions.
C10_MinimizedBlocks ==
    /\ [][(/\ pc \in {"recreateSwapchain", "getDrawableSize", "waitEvent"}
            /\ CpuStep
            /\ (width' = 0 \/ height' = 0))
          => (/\ pc' \in {"getDrawableSize", "waitEvent", "aborted"}
              /\ UNCHANGED <<created, destroyed, createCalls, destroyCalls, builds, scVars>>)]_vars
    /\ [][(pc = "waitEvent" /\ CpuStep /\ pc' # "aborted") => events # <<>>]_vars
    /\ []((caller = "recreateSwapchain" /\ pc \in RecreateBody) =>
             (width # 0 /\ height # 0))

\* recreateSwapchain is blocked in SDL_WaitEvent: the drawable it observed has
\* zero height and the event queue is empty
C10_BlockedWhileMinimized ==
    /\ pc = "waitEvent"
    /\ caller = "recreateSwapchain"
    /\ width # 0 /\ height = 0
    /\ events = <<>>

\* ------------------------------------------------------------------------
\* recreateSwapchain and the objects it leaves alone
\* ------------------------------------------------------------------------
\* the CPU thread is in recreateSwapchain
InRecreate == pc = "recreateSwapchain" \/ caller = "recreateSwapchain"

\* kinds of object a swapchain build makes
SwapchainKinds == {"swapchain", "swapchainImageView", "framebuffer",
                   "colorImage", "colorImageMemory", "colorImageView",
                   "depthImage", "depthImageMemory", "depthImageView"}

\* device, render pass, layouts, pipeline, command pool, sync objects,
\* textures and buffers: made once by initVulkan
PersistentObjects == DeviceObjects \cup PipelineObjects \cup SyncObjects \cup ResourceObjects

\* the swapchain fields all hold objects of build b
FieldsOfBuild(b) ==
    /\ \A h \in SwapchainObjects : h[1] \in SwapchainKinds /\ h[2] = b
    /\ \A i \in 1 .. Len(swapchainImages) : swapchainImages[i][2] = b

C12_RenderPassFormatMatchesSwapchain ==
    (pc \notin BuildSteps \cup {"aborted"}) => renderPassFormat = swapchainImageFormat

Preparing == pc \in {"resetCommandBuffer", "recordCommandBuffer", "updateUniformBuffer"}

C15_PreferredFormatOrFirst ==
    lastCall.fn = "chooseSwapSurfaceFormat" =>
        IF \E i \in 1 .. Len(lastCall.args) : lastCall.args[i] = PreferredFormat
        THEN lastCall.result = PreferredFormat
        ELSE lastCall.result = lastCall.args[1]

\* the preferred pair is last in a list of three and is returned
C15_PreferredFoundLast ==
    /\ lastCall.fn = "chooseSwapSurfaceFormat"
    /\ Len(lastCall.args) = 3
    /\ lastCall.args[1] # PreferredFormat /\ lastCall.args[2] # PreferredFormat
    /\ lastCall.args[3] = PreferredFormat
    /\ lastCall.result = PreferredFormat

\* C16: chooseSwapPresentMode returns mailbox if mailbox is in the list and
\* FIFO otherwise (for the empty list too), never another mode.
C16_MailboxOrFifo ==
    lastCall.fn = "chooseSwapPresentMode" =>
        /\ lastCall.result \in {"VK_PRESENT_MODE_MAILBOX_KHR", "VK_PRESENT_MODE_FIFO_KHR"}
        /\ (lastCall.result = "VK_PRESENT_MODE_MAILBOX_KHR"
              <=> \E i \in 1 .. Len(lastCall.args) :
                     lastCall.args[i] = "VK_PRESENT_MODE_MAILBOX_KHR")

\* FIFO is returned for a list that holds neither mailbox nor FIFO
C16_FifoThoughNotListed ==
    /\ lastCall.fn = "chooseSwapPresentMode"
    /\ lastCall.args = <<"VK_PRESENT_MODE_IMMEDIATE_KHR", "VK_PRESENT_MODE_FIFO_RELAXED_KHR">>
    /\ lastCall.result = "VK_PRESENT_MODE_FIFO_KHR"

\* component i of the result is the drawable size clamped to [min, max]
ClampedComponent(i) ==
    LET e == IF i = 1 THEN lastCall.args.width ELSE lastCall.args.height
        lo == lastCall.args.capabilities.minImageExtent[i]
        hi == lastCall.args.capabilities.maxImageExtent[i]
        r == lastCall.result[i]
    IN /\ lo <= r /\ r <= hi
       /\ (lo <= e /\ e <= hi) => r = e
       /\ e < lo => r = lo
       /\ e > hi => r = hi

\* C17 as stated: for every drawable size and every capability range the
\* extent chosen is the drawable size clamped to the range, component-wise.
C17_ExtentIsClampedDrawable ==
    lastCall.fn = "chooseSwapExtent" => (ClampedComponent(1) /\ ClampedComponent(2))

\* C17 amended: when currentExtent.width is the special value
\* 0xFFFFFFFF the extent chosen is the drawable size clamped to
\* [minImageExtent, maxImageExtent] component-wise; otherwise it is
\* currentExtent, whatever the drawable size and the range.
C17_CurrentExtentOrClampedDrawable ==
    lastCall.fn = "chooseSwapExtent" =>
        IF lastCall.args.capabilities.currentExtent[1] = UintMax
        THEN ClampedComponent(1) /\ ClampedComponent(2)
        ELSE lastCall.result = lastCall.args.capabilities.currentExtent

\* the surface dictates 640x480 while the drawable is 800x600, inside the
\* range: 640x480 is chosen
C17_CurrentExtentWins ==
    /\ lastCall.fn = "chooseSwapExtent"
    /\ lastCall.args.capabilities.currentExtent = <<640, 480>>
    /\ lastCall.args.capabilities.minImageExtent = <<1, 1>>
    /\ lastCall.args.capabilities.maxImageExtent = <<1024, 768>>
    /\ lastCall.args.width = 800 /\ lastCall.args.height = 600
    /\ lastCall.result = <<640, 480>>

\* C18: the image count createSwapchain requests is minImageCount + 1, but
\* maxImageCount when maxImageCount is nonzero and smaller than that;
\* min 2 / max 4 gives 3.
C18_ImageCountMinPlusOneCapped ==
    lastCall.fn = "imageCount" =>
        LET lo == lastCall.args.minImageCount
            hi == lastCall.args.maxImageCount
        IN /\ (hi # 0 /\ lo + 1 > hi) => lastCall.result = hi
           /\ ~(hi # 0 /\ lo + 1 > hi) => lastCall.result = lo + 1
           /\ (lo = 2 /\ hi = 4) => lastCall.result = 3

\* with no maximum (maxImageCount = 0) and minImageCount = 2, 3 images are
\* requested
C18_UnboundedMaximum ==
    /\ lastCall.fn = "imageCount"
    /\ lastCall.args.minImageCount = 2 /\ lastCall.args.maxImageCount = 0
    /\ lastCall.result = 3

\* the layout pairs transitionImageLayout supports
SupportedTransitions ==
    {<<"VK_IMAGE_LAYOUT_UNDEFINED", "VK_IMAGE_LAYOUT_TRANSFER_DST_OPTIMAL">>,
     <<"VK_IMAGE_LAYOUT_TRANSFER_DST_OPTIMAL", "VK_IMAGE_LAYOUT_SHADER_READ_ONLY_OPTIMAL">>,
     <<"VK_IMAGE_LAYOUT_UNDEFINED", "VK_IMAGE_LAYOUT_DEPTH_STENCIL_ATTACHMENT_OPTIMAL">>}

\* C19: for every layout pair outside the three supported ones
\* transitionImageLayout raises "Unsupported layout transition!", having
\* recorded no pipeline barrier and submitted nothing; for the three it raises
\* nothing.
C19_UnsupportedTransitionFatal ==
    lastCall.fn = "transitionImageLayout" =>
        IF lastCall.args \in SupportedTransitions
        THEN lastCall.result.fatal = "none"
        ELSE /\ lastCall.result.fatal = "Unsupported layout transition!"
             /\ lastCall.result.barrier = "none"
             /\ ~lastCall.result.submitted

\* shader-read-only to transfer-dst, the reverse of a supported pair, has thrown
C19_ReversePairRejected ==
    /\ lastCall.fn = "transitionImageLayout"
    /\ lastCall.args = <<"VK_IMAGE_LAYOUT_SHADER_READ_ONLY_OPTIMAL",
                         "VK_IMAGE_LAYOUT_TRANSFER_DST_OPTIMAL">>
    /\ lastCall.result.fatal = "Unsupported layout transition!"
    /\ lastCall.result.barrier = "none"

\* C20: for a texture of width w and height h, both >= 1, mipLevels is
\* floor(log2(max(w, h))) + 1, the number L with 2^(L-1) <= max(w, h) < 2^L;
\* for 512x300 it is 10.
C20_MipLevelsOfLargerSide ==
    lastCall.fn = "mipLevels" =>
        LET larger == IF lastCall.args[1] >= lastCall.args[2] THEN lastCall.args[1]
                                                              ELSE lastCall.args[2]
            levels == lastCall.result
        IN /\ levels >= 1
           /\ 2 ^ (levels - 1) <= larger
           /\ larger < 2 ^ levels
           /\ (lastCall.args = <<512, 300>> => levels = 10)

\* the 512x300 texture has 10 levels
C20_Levels512x300 ==
    /\ lastCall.fn = "mipLevels"
    /\ lastCall.args = <<512, 300>>
    /\ lastCall.result = 10

\* the first step of the createBuffer / createImage call in lastCall that
\* failed, as its position in the order create, memory-type selection,
\* allocate, bind; 0 if none failed.  A step counts only if it was reached
\* with every step before it successful.
FirstFailedStep ==
    IF lastCall.args.create # VK_SUCCESS THEN 1
    ELSE IF ~lastCall.args.typeFound THEN 3
    ELSE IF lastCall.args.allocate # VK_SUCCESS THEN 4
    ELSE IF lastCall.args.bind # VK_SUCCESS THEN 5
    ELSE 0

\* C21: createBuffer and createImage raise the fatal diagnostic if any of
\* their steps fails (handle creation, memory-type selection, allocation,
\* bind), and make no later call after the failed one.
C21_AnyFailedStepIsFatal ==
    lastCall.fn \in {"createBuffer", "createImage"} =>
        IF FirstFailedStep = 0
        THEN lastCall.result.fatal = "none" /\ Len(lastCall.result.calls) = 5
        ELSE lastCall.result.fatal # "none" /\ Len(lastCall.result.calls) = FirstFailedStep

\* no device-local resource was ever mapped or written by the host, and what
\* a device-local resource holds was put there by a copy command that read a
\* host-visible staging buffer
DeviceLocalFilledByCopy ==
    \A id \in DOMAIN resources :
        resources[id].memory = "device" =>
            /\ ~resources[id].everMapped /\ ~resources[id].mapped /\ ~resources[id].written
            /\ resources[id].filled =>
                  /\ resources[id].source \in DOMAIN resources
                  /\ resources[resources[id].source].memory = "host"
                  /\ resources[resources[id].source].usage = "staging"

\* C22 as stated: every host-visible+coherent resource the GPU is asked to
\* read has been mapped, written and unmapped before the submit, and no
\* device-local resource is ever mapped: it is filled only by a copy from a
\* staging resource.
C22_HostVisibleUnmappedBeforeRead ==
    /\ \A r \in reads : r.memory = "host" => (r.everMapped /\ r.written /\ ~r.mapped)
    /\ DeviceLocalFilledByCopy

\* C22 amended: every staging buffer the GPU is asked to read has been mapped,
\* written and unmapped before the submit; a uniform buffer (host-visible and
\* coherent as well) is mapped when created, stays mapped, and has been
\* written through that mapping before every submit that reads it; no
\* device-local resource is ever mapped: it is filled only by a copy from a
\* staging buffer.
C22_StagingUnmappedUniformStaysMapped ==
    /\ \A r \in reads :
          /\ r.memory = "host" => r.usage \in {"staging", "uniform"}
          /\ r.usage = "staging" => (r.everMapped /\ r.written /\ ~r.mapped)
          /\ r.usage = "uniform" => (r.mapped /\ r.written)
    /\ \A id \in DOMAIN resources :
          resources[id].usage = "uniform" => resources[id].mapped
    /\ DeviceLocalFilledByCopy

\* a frame was submitted that reads a uniform buffer still mapped, after the
\* vertex data went through an unmapped staging buffer
C22_MappedUniformBufferRead ==
    /\ \E r \in reads : r.usage = "uniform" /\ r.mapped /\ r.written
    /\ \E r \in reads : r.usage = "staging" /\ ~r.mapped /\ r.written
    /\ \E id \in DOMAIN resources : resources[id].usage = "geometry" /\ resources[id].filled

\* C23: chooseSwapExtent returns currentExtent unchanged, both components,
\* unclamped and whatever the drawable size, whenever currentExtent.width is
\* not the sentinel 0xFFFFFFFF; only when currentExtent.width is the sentinel
\* does it return the drawable size clamped component-wise to
\* [minImageExtent, maxImageExtent].
C23_CurrentExtentUnlessSentinel ==
    lastCall.fn = "chooseSwapExtent" =>
        LET cur == lastCall.args.capabilities.currentExtent
            lo == lastCall.args.capabilities.minImageExtent
            hi == lastCall.args.capabilities.maxImageExtent
            drawn == <<lastCall.args.width, lastCall.args.height>>
        IN /\ cur[1] # UintMax => lastCall.result = cur
           /\ cur[1] = UintMax =>
                 \A k \in 1 .. 2 :
                     lastCall.result[k] = IF drawn[k] < lo[k] THEN lo[k]
                                          ELSE IF drawn[k] > hi[k] THEN hi[k]
                                          ELSE drawn[k]

\* a currentExtent of 5000x100, outside the range [320x240, 1024x768], is
\* returned as it is
C23_CurrentExtentOutsideRange ==
    /\ lastCall.fn = "chooseSwapExtent"
    /\ lastCall.args.capabilities.currentExtent = <<5000, 100>>
    /\ lastCall.args.capabilities.minImageExtent = <<320, 240>>
    /\ lastCall.args.capabilities.maxImageExtent = <<1024, 768>>
    /\ lastCall.result = <<5000, 100>>

\* the barrier the spec documents for each supported transition
DocumentedBarrier(oldLayout, newLayout) ==
    IF <<oldLayout, newLayout>> =
          <<"VK_IMAGE_LAYOUT_UNDEFINED", "VK_IMAGE_LAYOUT_TRANSFER_DST_OPTIMAL">>
    THEN [oldLayout |-> oldLayout, newLayout |-> newLayout,
          srcAccessMask |-> {}, dstAccessMask |-> {"VK_ACCESS_TRANSFER_WRITE_BIT"},
          sourceStage |-> "VK_PIPELINE_STAGE_TOP_OF_PIPE_BIT",
          destinationStage |-> "VK_PIPELINE_STAGE_TRANSFER_BIT"]
    ELSE IF <<oldLayout, newLayout>> =
          <<"VK_IMAGE_LAYOUT_TRANSFER_DST_OPTIMAL", "VK_IMAGE_LAYOUT_SHADER_READ_ONLY_OPTIMAL">>
    THEN [oldLayout |-> oldLayout, newLayout |-> newLayout,
          srcAccessMask |-> {"VK_ACCESS_TRANSFER_WRITE_BIT"},
          dstAccessMask |-> {"VK_ACCESS_SHADER_READ_BIT"},
          sourceStage |-> "VK_PIPELINE_STAGE_TRANSFER_BIT",
          destinationStage |-> "VK_PIPELINE_STAGE_FRAGMENT_SHADER_BIT"]
    ELSE [oldLayout |-> oldLayout, newLayout |-> newLayout,
          srcAccessMask |-> {},
          dstAccessMask |-> {"VK_ACCESS_DEPTH_STENCIL_ATTACHMENT_READ_BIT",
                             "VK_ACCESS_DEPTH_STENCIL_ATTACHMENT_WRITE_BIT"},
          sourceStage |-> "VK_PIPELINE_STAGE_TOP_OF_PIPE_BIT",
          destinationStage |-> "VK_PIPELINE_STAGE_EARLY_FRAGMENT_TESTS_BIT"]

\* C24: for each of the three supported layout transitions,
\* transitionImageLayout records exactly one barrier, with the documented
\* access masks and stages, and submits it.
C24_SupportedTransitionBarrier ==
    (lastCall.fn = "transitionImageLayout" /\ lastCall.args \in SupportedTransitions) =>
        /\ lastCall.result.barriers = <<DocumentedBarrier(lastCall.args[1], lastCall.args[2])>>
        /\ lastCall.result.submitted
        /\ lastCall.result.fatal = "none"

\* undefined to depth-stencil-attachment has recorded its one barrier, with
\* both depth-stencil access bits as the destination mask
C24_DepthTransitionRecorded ==
    /\ lastCall.fn = "transitionImageLayout"
    /\ lastCall.args = <<"VK_IMAGE_LAYOUT_UNDEFINED",
                         "VK_IMAGE_LAYOUT_DEPTH_STENCIL_ATTACHMENT_OPTIMAL">>
    /\ Len(lastCall.result.barriers) = 1
    /\ lastCall.result.barriers[1].dstAccessMask =
          {"VK_ACCESS_DEPTH_STENCIL_ATTACHMENT_READ_BIT",
           "VK_ACCESS_DEPTH_STENCIL_ATTACHMENT_WRITE_BIT"}
    /\ lastCall.result.barriers[1].destinationStage = "VK_PIPELINE_STAGE_EARLY_FRAGMENT_TESTS_BIT"

\* size of level l of the texture: each dimension of level 0 halved l times,
\* with a floor of 1
LevelSize(l) ==
    <<Max(1, textureWidth \div (2 ^ l)), Max(1, textureHeight \div (2 ^ l))>>

\* the commands of generateMipmaps are all recorded
MipmapsRecorded ==
    \/ step = "mipmaps" /\ sub \in {"end", "wait"}
    \/ step = "destroy" /\ IsTexture(job)

\* C25: generateMipmaps on an image of M = mipLevels >= 1 levels, all in
\* transfer-dst layout: blit i (i = 1 .. M-1) reads level i-1 in transfer-src
\* layout and writes level i in transfer-dst layout, its source size is the
\* size of level i-1 and its destination size that size halved with a floor
\* of 1; when the call has recorded its commands there are M-1 blits, every
\* level is in shader-read-only layout and was moved there exactly once, the
\* last level directly from transfer-dst.
C25_MipChainBlitsAndLayouts ==
    /\ (step = "mipmaps" /\ sub \in {"begin", "record", "blit", "toRead", "end", "wait"}) =>
          \A k \in 1 .. Len(blits) :
              /\ blits[k].srcLevel = k - 1 /\ blits[k].dstLevel = k
              /\ blits[k].srcLayout = "VK_IMAGE_LAYOUT_TRANSFER_SRC_OPTIMAL"
              /\ blits[k].dstLayout = "VK_IMAGE_LAYOUT_TRANSFER_DST_OPTIMAL"
              /\ blits[k].srcSize = LevelSize(k - 1)
              /\ blits[k].dstSize = LevelSize(k)
              /\ blits[k].dstSize = <<Max(1, blits[k].srcSize[1] \div 2),
                                      Max(1, blits[k].srcSize[2] \div 2)>>
    /\ MipmapsRecorded =>
          /\ mipLevels >= 1 /\ Len(blits) = mipLevels - 1
          /\ \A l \in 0 .. mipLevels - 1 :
                /\ mipLayout[l] = "VK_IMAGE_LAYOUT_SHADER_READ_ONLY_OPTIMAL"
                /\ Cardinality({k \in 1 .. Len(mipBarriers) :
                       /\ mipBarriers[k].level = l
                       /\ mipBarriers[k].newLayout =
                             "VK_IMAGE_LAYOUT_SHADER_READ_ONLY_OPTIMAL"}) = 1
          /\ \A k \in 1 .. Len(mipBarriers) :
                /\ mipBarriers[k].was = mipBarriers[k].oldLayout
                /\ (mipBarriers[k].level = mipLevels - 1
                      => mipBarriers[k].oldLayout = "VK_IMAGE_LAYOUT_TRANSFER_DST_OPTIMAL")

\* the mip chain of a 5x8 texture is recorded: four levels, three blits, the
\* last one from 1x2 to 1x1
C25_FourLevelChainRecorded ==
    /\ MipmapsRecorded
    /\ textureWidth = 5 /\ textureHeight = 8 /\ mipLevels = 4
    /\ Len(blits) = 3
    /\ blits[3].srcSize = <<1, 2>> /\ blits[3].dstSize = <<1, 1>>

\* the function before job has just returned and it was a transfer
\* (createTextureImage*, createVertexBuffer*, createIndexBuffer*); loadLog
\* holds its calls
TransferReturned ==
    /\ job > 1 /\ step = FirstStep(job) /\ sub = "none" /\ uniformIndex = 0
    /\ ~IsUniform(job - 1)

\* position of the copy command in loadLog
CopyIndex ==
    CHOOSE k \in 1 .. Len(loadLog) :
        loadLog[k] \in {"vkCmdCopyBuffer", "vkCmdCopyBufferToImage"}

\* first position of call ev in loadLog
FirstIndex(ev) ==
    CHOOSE k \in 1 .. Len(loadLog) :
        loadLog[k] = ev /\ \A m \in 1 .. k - 1 : loadLog[m] # ev

\* C26: a host-to-device transfer makes its calls in the order: create the
\* staging buffer, map, copy the payload, unmap, allocate the one-shot command
\* buffer, begin, record the copy, end, submit, wait for the queue to be idle,
\* free the command buffer, destroy the staging buffer and free its memory.
\* The staging buffer is alive as long as the queue has not completed the copy
\* that reads it, and outside a one-shot sequence no one-shot command buffer
\* is allocated.
C26_TransferOrder ==
    /\ TransferReturned =>
          /\ Cardinality({k \in 1 .. Len(loadLog) :
                loadLog[k] \in {"vkCmdCopyBuffer", "vkCmdCopyBufferToImage"}}) = 1
          /\ FirstIndex("createBuffer") < FirstIndex("vkMapMemory")
          /\ FirstIndex("vkMapMemory") + 1 = FirstIndex("memcpy")
          /\ FirstIndex("memcpy") + 1 = FirstIndex("vkUnmapMemory")
          /\ FirstIndex("vkUnmapMemory") < CopyIndex - 2
          /\ SubSeq(loadLog, CopyIndex - 2, CopyIndex - 1) =
                <<"vkAllocateCommandBuffers", "vkBeginCommandBuffer">>
          /\ SubSeq(loadLog, CopyIndex + 1, CopyIndex + 4) =
                <<"vkEndCommandBuffer", "vkQueueSubmit", "vkQueueWaitIdle",
                  "vkFreeCommandBuffers">>
          /\ CopyIndex + 4 < Len(loadLog) - 1
          /\ SubSeq(loadLog, Len(loadLog) - 1, Len(loadLog)) =
                <<"vkDestroyBuffer", "vkFreeMemory">>
          /\ ~IsTexture(job - 1) =>
                loadLog = <<"createBuffer", "vkMapMemory", "memcpy", "vkUnmapMemory",
                            "createBuffer", "vkAllocateCommandBuffers",
                            "vkBeginCommandBuffer", "vkCmdCopyBuffer", "vkEndCommandBuffer",
                            "vkQueueSubmit", "vkQueueWaitIdle", "vkFreeCommandBuffers",
                            "vkDestroyBuffer", "vkFreeMemory">>
    /\ queueBusy => \A id \in cmdReads : resources[id].alive
    /\ step = "destroy" => ~queueBusy
    /\ sub \in {"none", "begin", "check", "submit"} => oneShot = "none"

\* createVertexBuffer has returned: its staging buffer is destroyed, the
\* vertex buffer is filled and no one-shot command buffer is left
C26_VertexBufferTransferred ==
    /\ TransferReturned /\ Jobs[job - 1] = "createVertexBuffer"
    /\ ~resources[<<job - 1, "staging", 0>>].alive
    /\ resources[<<job - 1, "target", 0>>].filled
    /\ oneShot = "none"

\* the memory types of the call in lastCall that fit: below memoryTypeCount,
\* their bit set in the type filter, all requested property flags present
FittingMemoryTypes ==
    {i \in 0 .. MaxMemoryTypes - 1 :
        /\ i < lastCall.args.memProperties.memoryTypeCount
        /\ (lastCall.args.typeFilter \div (2 ^ i)) % 2 = 1
        /\ \A flag \in lastCall.args.properties :
              flag \in lastCall.args.memProperties.memoryTypes[i]}

\* C27: findMemoryType returns the lowest index below memoryTypeCount whose
\* bit is set in the type filter and whose memory type has all requested
\* property flags; it raises the fatal diagnostic when there is none.
C27_LowestFittingMemoryType ==
    lastCall.fn = "findMemoryType" =>
        IF FittingMemoryTypes = {}
        THEN lastCall.result.fatal = "Failed to find suitable memory type!"
        ELSE /\ lastCall.result.fatal = "none"
             /\ lastCall.result.index \in FittingMemoryTypes
             /\ \A i \in FittingMemoryTypes : lastCall.result.index <= i

\* type 0 has the flags but not its filter bit, type 1 the bit but not the
\* flags: type 2 is returned
C27_ThirdTypeChosen ==
    /\ lastCall.fn = "findMemoryType"
    /\ lastCall.args.memProperties.memoryTypeCount = 3
    /\ lastCall.args.typeFilter = 6
    /\ lastCall.args.properties = {"VK_MEMORY_PROPERTY_DEVICE_LOCAL_BIT"}
    /\ lastCall.args.memProperties.memoryTypes[0] = {"VK_MEMORY_PROPERTY_DEVICE_LOCAL_BIT"}
    /\ lastCall.args.memProperties.memoryTypes[1] = {"VK_MEMORY_PROPERTY_HOST_VISIBLE_BIT"}
    /\ lastCall.result = [index |-> 2, fatal |-> "none"]

\* the suitability predicate as the spec words it: some queue family supports
\* graphics and some supports presentation, the swapchain extension is there,
\* the format list and the present-mode list are not empty, anisotropic
\* sampling is supported
Suitable(device) ==
    /\ \E k \in 1 .. Len(device.queueFamilies) : device.queueFamilies[k].graphics
    /\ \E k \in 1 .. Len(device.queueFamilies) : device.queueFamilies[k].present
    /\ device.swapchainExtension
    /\ device.formatCount > 0
    /\ device.presentModeCount > 0
    /\ device.samplerAnisotropy

\* C28: pickPhysicalDevice selects the first device in enumeration order that
\* is suitable; it raises the fatal diagnostic when no device is enumerated
\* and when none of the devices enumerated is suitable.
C28_FirstSuitableDevicePicked ==
    lastCall.fn = "pickPhysicalDevice" =>
        LET devices == lastCall.args
            suitable == {k \in 1 .. Len(devices) : Suitable(devices[k])}
        IN IF suitable = {}
           THEN /\ lastCall.result.fatal # "none"
                /\ (Len(devices) = 0 <=>
                      lastCall.result.fatal = "Failed to find any GPUs with Vulkan support!")
           ELSE /\ lastCall.result.fatal = "none"
                /\ lastCall.result.physicalDevice \in suitable
                /\ \A k \in suitable : lastCall.result.physicalDevice <= k

\* the first device lacks anisotropic sampling only; the second is picked
C28_SecondDevicePicked ==
    /\ lastCall.fn = "pickPhysicalDevice"
    /\ Len(lastCall.args) = 2
    /\ ~lastCall.args[1].samplerAnisotropy
    /\ lastCall.args[1].swapchainExtension /\ lastCall.args[1].formatCount = 1
    /\ lastCall.args[1].presentModeCount = 1
    /\ lastCall.args[1].queueFamilies = <<[graphics |-> TRUE, present |-> TRUE]>>
    /\ lastCall.result = [physicalDevice |-> 2, fatal |-> "none"]

\* C29: findQueueFamilies is complete if and only if some family supports
\* graphics and some family supports presentation; when it is complete, the
\* graphics index names a family that supports graphics and the present index
\* a family that supports presentation (possibly the same one).
C29_QueueFamiliesCompleteIffBothExist ==
    lastCall.fn = "findQueueFamilies" =>
        LET families == lastCall.args
            indices == lastCall.result
            complete == indices.graphicsFamily # NoFamily /\ indices.presentFamily # NoFamily
        IN /\ complete <=> (/\ \E k \in 1 .. Len(families) : families[k].graphics
                            /\ \E k \in 1 .. Len(families) : families[k].present)
           /\ complete =>
                 /\ indices.graphicsFamily \in 0 .. Len(families) - 1
                 /\ indices.presentFamily \in 0 .. Len(families) - 1
                 /\ families[indices.graphicsFamily + 1].graphics
                 /\ families[indices.presentFamily + 1].present

\* graphics only in family 0, presentation only in family 1: complete, with
\* different indices
C29_SeparateFamilies ==
    /\ lastCall.fn = "findQueueFamilies"
    /\ lastCall.args = <<[graphics |-> TRUE, present |-> FALSE],
                         [graphics |-> FALSE, present |-> TRUE]>>
    /\ lastCall.result = [graphicsFamily |-> 0, presentFamily |-> 1]

\* vkQueuePresentKHR has returned in the current drawFrame call
PresentReached == "vkQueuePresentKHR" \in Calls

\* C30: currentFrame is always in 0 .. MAX_FRAMES_IN_FLIGHT - 1; a drawFrame
\* call that reached present returns with currentFrame one further modulo
\* MAX_FRAMES_IN_FLIGHT than at its entry, also when present made it recreate
\* the swapchain; a call abandoned on an out-of-date acquire returns with
\* currentFrame as at its entry; nothing else changes currentFrame.
C30_CurrentFrameAdvancesModN ==
    /\ [](currentFrame \in 0 .. MAX_FRAMES_IN_FLIGHT - 1)
    /\ []((PresentReached /\ fatal = "none") => (pc = "advance" \/ ret = "advance"))
    /\ [][(CpuStep /\ pc \in {"advance", "return"})
          => (/\ pc' = "run"
              /\ PresentReached => currentFrame' = (slotAtEntry + 1) % MAX_FRAMES_IN_FLIGHT
              /\ ~PresentReached =>
                    /\ Returned("vkAcquireNextImageKHR", VK_ERROR_OUT_OF_DATE_KHR)
                    /\ currentFrame' = slotAtEntry)]_vars
    /\ [][(CpuStep /\ pc \notin {"advance", "return"}) => currentFrame' = currentFrame]_vars

\* a call that started in slot 1 has returned with currentFrame 0, and a
\* recreation has taken place
C30_WrappedToSlotZero ==
    /\ pc = "run"
    /\ slotAtEntry = 1 /\ currentFrame = 0
    /\ builds > 1

\* ------------------------------------------------------------------------
\* The order of a frame and what its calls are given
\* ------------------------------------------------------------------------
\* the events of a frame, in the order the claim gives them
FrameOrder == <<"vkAcquireNextImageKHR", "vkResetFences", "recordCommandBuffer",
                "updateUniformBuffer", "vkQueueSubmit", "vkQueuePresentKHR">>

IsFrameEvent(entry) == entry[1] \in Range(FrameOrder)

\* these events as the current drawFrame call has made them so far
FrameEvents == [i \in 1 .. Len(SelectSeq(frameLog, IsFrameEvent)) |->
                  SelectSeq(frameLog, IsFrameEvent)[i][1]]

\* C31: in every drawFrame call the events acquire, fence reset, record,
\* uniform update, submit, present occur in this order, each at most once, and
\* a call that is not abandoned has made all six when it has presented; its
\* submit waits on the image-available semaphore of the slot the call started
\* with, at the color-attachment-output stage, and signals that slot's
\* render-finished semaphore and fence; its present waits on that slot's
\* render-finished semaphore and presents, on the swapchain the image was
\* acquired from, the image index the acquire returned (imageIndex is written
\* by the acquire only).
C31_FrameOrderAndSemaphores ==
    /\ [](FrameEvents = SubSeq(FrameOrder, 1, Len(FrameEvents)))
    /\ [](PresentReached =>
            /\ FrameEvents = FrameOrder
            /\ currentFrame = slotAtEntry
            /\ Len(submitInfo) = 1
            /\ submitInfo[1].waitSemaphore = slotAtEntry
            /\ submitInfo[1].waitStage = "VK_PIPELINE_STAGE_COLOR_ATTACHMENT_OUTPUT_BIT"
            /\ submitInfo[1].commandBuffer = slotAtEntry
            /\ submitInfo[1].signalSemaphore = slotAtEntry
            /\ submitInfo[1].fence = slotAtEntry
            /\ Len(presentInfo) = 1
            /\ presentInfo[1].waitSemaphore = submitInfo[1].signalSemaphore
            /\ presentInfo[1].swapchain = acquiredFrom
            /\ presentInfo[1].imageIndex = imageIndex)
    /\ [][(pc # "acquire" /\ pc' # "run") => imageIndex' = imageIndex]_vars
    /\ [][(pc = "acquire" /\ pc' = "resetFences")
          => (/\ imageIndex' \in 0 .. (Len(swapchainImages) - 1)
              /\ imageAvailableSemaphores'[slotAtEntry])]_vars

\* a frame of slot 1 has presented image 1 after a suboptimal acquire
C31_SlotOneFramePresented ==
    /\ pc = "advance"
    /\ slotAtEntry = 1
    /\ Returned("vkAcquireNextImageKHR", VK_SUBOPTIMAL_KHR)
    /\ Len(presentInfo) = 1 /\ presentInfo[1].imageIndex = 1

\* ------------------------------------------------------------------------
\* Uniform buffers
\* ------------------------------------------------------------------------
\* the slots whose uniform buffers submission p reads: its command buffer
\* binds descriptorSets[currentFrame] and descriptorSets2[currentFrame], which
\* refer to uniformBuffers[i] and uniformBuffers2[i] of the same i
UniformBuffersRead(p) == {p.slot}

SyncCreated == H("inFlightFences", 0, 0) \in created

\* a submission made with the slot's fence is queued
Queued(s) == \E p \in pending : p.slot = s

\* between vkResetFences and vkQueueSubmit of a call
ResetNotSubmitted ==
    pc \in {"resetCommandBuffer", "recordCommandBuffer", "updateUniformBuffer", "queueSubmit"}

\* C33: once the fences are created, each slot's fence is signaled or is the
\* fence of a queued submission, except the current slot's fence between its
\* reset and the submit of the same call; a call that has reset the fence
\* submits with it or throws; and under SpecLive a drawFrame call that is
\* waiting for its fence gets to the acquire.
C33_FenceWaitReturns ==
    /\ []((SyncCreated /\ pc # "aborted") =>
             \A s \in Slots :
                \/ inFlightFences[s]
                \/ Queued(s)
                \/ (s = currentFrame /\ ResetNotSubmitted))
    /\ [][(ResetNotSubmitted /\ CpuStep)
          => (\/ ResetNotSubmitted'
              \/ pc' = "aborted"
              \/ pc' = "queuePresent" /\ Queued(currentFrame)')]_vars
    /\ ((pc = "drawFrame") ~> (pc = "acquire"))

\* a drawFrame call is waiting for the fence of a slot whose earlier
\* submission is outstanding
C33_WaitingForOutstandingSlot ==
    /\ pc = "drawFrame"
    /\ ~inFlightFences[currentFrame]
    /\ Queued(currentFrame)

\* ------------------------------------------------------------------------
\* Acquired images and the image-available semaphores
\* ------------------------------------------------------------------------
\* the acquire of this call handed over an image
ImageAcquired ==
    \/ Returned("vkAcquireNextImageKHR", VK_SUCCESS)
    \/ Returned("vkAcquireNextImageKHR", VK_SUBOPTIMAL_KHR)

\* C34: a drawFrame call that returns after an acquire with VK_SUCCESS or
\* VK_SUBOPTIMAL_KHR has submitted, waiting on the semaphore the acquire
\* signaled, and has presented the image acquired; an image-available
\* semaphore holds an unconsumed signal only in the current slot between the
\* acquire and the submit of one call; so every acquire is called with a
\* semaphore whose last signal a submit has waited on.
C34_AcquiredImageSubmittedAndPresented ==
    /\ [][(pc \in {"advance", "return"} /\ pc' = "run" /\ ImageAcquired)
          => (/\ Returned("vkQueueSubmit", VK_SUCCESS)
              /\ PresentReached
              /\ Len(submitInfo) = 1 /\ Len(presentInfo) = 1
              /\ submitInfo[1].waitSemaphore = slotAtEntry
              /\ presentInfo[1].imageIndex = imageIndex
              /\ presentInfo[1].swapchain = acquiredFrom)]_vars
    /\ [](\A s \in Slots :
            imageAvailableSemaphores[s] =>
               \/ pc = "aborted"
               \/ (/\ s = currentFrame
                   /\ ImageAcquired
                   /\ pc \in {"resetFences", "resetCommandBuffer", "recordCommandBuffer",
                              "updateUniformBuffer", "queueSubmit"}))
    /\ [](pc = "acquire" => ~imageAvailableSemaphores[AcquireSemaphore])

\* an acquire has signaled slot 0's semaphore again: slot 0 was used before
\* (slot 1's submission is outstanding) and a recreation has taken place
C34_SemaphoreReusedAfterSuboptimalAcquire ==
    /\ pc = "resetFences"
    /\ currentFrame = 0
    /\ imageAvailableSemaphores[0]
    /\ builds > 1
    /\ \E p \in pending : p.slot = 1

\* ------------------------------------------------------------------------
\* The image index a frame records with
\* ------------------------------------------------------------------------
\* from the return of the acquire to the call of present
FrameInProgress ==
    pc \in {"resetFences", "resetCommandBuffer", "recordCommandBuffer",
            "updateUniformBuffer", "queueSubmit", "queuePresent"}

\* C35: from a frame's acquire to its present, imageIndex is smaller than the
\* length of swapchainFramebuffers, the swapchain is the one the index was
\* acquired from, and the framebuffer at that index is a live framebuffer of
\* the current build of the swapchain; the steps in between replace neither
\* the swapchain nor its framebuffers; and the framebuffer that
\* recordCommandBuffer puts in the command buffer is that one.
C35_ImageIndexWithinCurrentFramebuffers ==
    /\ [](FrameInProgress =>
            /\ imageIndex \in 0 .. (Len(swapchainFramebuffers) - 1)
            /\ acquiredFrom = swapchain
            /\ swapchain = H("swapchain", builds, 0)
            /\ swapchainFramebuffers[imageIndex + 1] \in Live
            /\ swapchainFramebuffers[imageIndex + 1][2] = builds)
    /\ [][(FrameInProgress /\ FrameInProgress')
          => UNCHANGED <<swapchain, swapchainFramebuffers, builds, imageIndex>>]_vars
    /\ [][(pc = "recordCommandBuffer" /\ pc' = "updateUniformBuffer")
          => cmdFramebuffer'[currentFrame] = swapchainFramebuffers[imageIndex + 1]]_vars

\* recordCommandBuffer is about to select the third framebuffer of a
\* recreated swapchain
C35_ThirdFramebufferOfRecreatedSwapchain ==
    /\ pc = "recordCommandBuffer"
    /\ imageIndex = 2
    /\ builds > 1

\* ------------------------------------------------------------------------
\* The wait loop of recreateSwapchain
\* ------------------------------------------------------------------------
\* the CPU thread is in the while loop of recreateSwapchain
InWaitLoop == pc \in {"getDrawableSize", "waitEvent"}

DrawableNonzero == ~Minimized(drawable[1], drawable[2])

\* C36: while recreateSwapchain is in its wait loop and the drawable size is
\* nonzero, an event is in the queue (the one that came with the change of
\* size: the loop takes no event off the queue), so SDL_WaitEvent returns
\* without a further event; under SpecLive, where the window system owes no
\* event, such a state leads to recreateSwapchain building the new swapchain,
\* unless the window is minimized again or a call throws first.
C36_WaitLoopEndsOnceDrawableNonzero ==
    /\ []((InWaitLoop /\ DrawableNonzero) => events # <<>>)
    /\ [][InWaitLoop => events' \in {events} \cup {Append(events, e) :
                                       e \in {"SDL_QUIT", "SDLK_ESCAPE", "SDL_WINDOWEVENT"}}]_vars
    /\ ((InWaitLoop /\ DrawableNonzero)
          ~> (\/ caller = "recreateSwapchain" /\ pc = "createSwapchain"
              \/ ~DrawableNonzero
              \/ pc = "aborted"))

\* recreateSwapchain is in SDL_WaitEvent with a zero size in its locals, the
\* window has been restored, and no further event can come
C36_RestoredWhileWaiting ==
    /\ pc = "waitEvent"
    /\ Minimized(width, height)
    /\ DrawableNonzero
    /\ Len(events) = 1
    /\ posted = MaxEvents

\* a quit event is in the queue
QuitQueued == \E i \in 1 .. Len(events) : IsQuit(events[i])

\* C37: bQuit is written nowhere in recreateSwapchain; with a quit event in
\* the queue and a zero size in its locals the wait loop goes on (or
\* SDL_WaitEvent fails and throws) and leaves the event in the queue; the loop
\* is left, other than by a throw, only into vkDeviceWaitIdle with a nonzero
\* size seen; and the display loop goes to its exit only from its own poll,
\* with bQuit set and the queue empty, never from inside recreateSwapchain.
C37_QuitDoesNotEndTheWait ==
    /\ [][InRecreate => bQuit' = bQuit]_vars
    /\ [][(InWaitLoop /\ CpuStep /\ QuitQueued /\ Minimized(width', height'))
          => (/\ pc' \in {"getDrawableSize", "waitEvent", "aborted"}
              /\ events' = events)]_vars
    /\ [][(InWaitLoop /\ ~InWaitLoop' /\ pc' # "aborted")
          => (/\ pc' = "deviceWaitIdle"
              /\ caller' = "recreateSwapchain"
              /\ ~Minimized(width', height'))]_vars
    /\ [][(caller' = "cleanup" /\ caller # "cleanup")
          => (pc = "run" /\ ~InRecreate /\ bQuit /\ events = <<>>)]_vars

\* recreateSwapchain is in SDL_WaitEvent for a minimized window, the quit
\* request is the one event in the queue and no further event can come: from
\* here the loop goes round for ever
C37_QuitQueuedWhileBlocked ==
    /\ pc = "waitEvent"
    /\ Minimized(width, height)
    /\ ~DrawableNonzero
    /\ Len(events) = 1 /\ IsQuit(events[1])
    /\ posted = MaxEvents
    /\ ~bQuit

\* ------------------------------------------------------------------------
\* DisplayServer::run
\* ------------------------------------------------------------------------
\* C38: drawFrame is entered only from the poll of the display loop, in the
\* step that takes one event off the queue; every event that leaves the queue
\* leaves it in such a step, the first in the queue and one at a time; no
\* event leaves the queue while a drawFrame call runs; and with the queue
\* empty the only step the display loop takes is its exit, with bQuit set.
C38_OneFramePerPolledEvent ==
    /\ [][(pc' = "drawFrame" /\ pc # "drawFrame")
          => (pc = "run" /\ events # <<>> /\ events' = Tail(events))]_vars
    /\ [][(Len(events') < Len(events) \/ (events # <<>> /\ events' # <<>>
                                           /\ Head(events') # Head(events)))
          => (pc = "run" /\ pc' = "drawFrame" /\ events' = Tail(events))]_vars
    /\ [][(pc = "run" /\ CpuStep /\ events = <<>>)
          => (bQuit /\ pc' = "deviceWaitIdle" /\ caller' = "cleanup")]_vars
    /\ [][(pc = "run" /\ CpuStep /\ events # <<>>) => pc' = "drawFrame"]_vars
    /\ [](pc = "drawFrame" => Len(events) < posted)

\* the second event has been polled and the second drawFrame call is entered;
\* the queue is empty
C38_SecondFrameForSecondEvent ==
    /\ pc = "drawFrame"
    /\ posted = 2 /\ events = <<>>
    /\ slotAtEntry = 1
    /\ ~bQuit

\* the run is over: cleanup has returned, or an exception was thrown
Terminated == pc \in {"done", "aborted"}

\* C39: the poll of a quit event (SDL_QUIT, or key-down of Escape) sets
\* bQuit and goes on to drawFrame like the poll of any other event, also when
\* bQuit is set already; bQuit is set by such a poll only and is never reset;
\* with bQuit set and the queue empty the display loop takes its exit, and with
\* the queue empty it takes no other step; under SpecLive, once bQuit is set
\* the run terminates, unless a frame drawn on the way waits in
\* recreateSwapchain for a minimized window.
C39_QuitDrainsQueueThenTerminates ==
    /\ [][bQuit => bQuit']_vars
    /\ [][(~bQuit /\ bQuit')
          => (pc = "run" /\ events # <<>>
              /\ Head(events) \in {"SDL_QUIT", "SDLK_ESCAPE"})]_vars
    /\ [][(pc = "run" /\ events # <<>> /\ CpuStep)
          => (/\ pc' = "drawFrame"
              /\ events' = Tail(events)
              /\ bQuit' = (bQuit \/ Head(events) \in {"SDL_QUIT", "SDLK_ESCAPE"}))]_vars
    /\ [][(pc = "run" /\ events = <<>> /\ CpuStep)
          => (bQuit /\ pc' = "deviceWaitIdle" /\ caller' = "cleanup")]_vars
    /\ [](caller = "cleanup" => bQuit)
    /\ (bQuit ~> (Terminated \/ (InWaitLoop /\ ~DrawableNonzero)))

\* the frame for the quit event has been drawn and has returned, bQuit is
\* set, and a window event posted after the quit event is still to be polled
C39_EventRemainsAfterQuit ==
    /\ pc = "run"
    /\ bQuit
    /\ events = <<"SDL_WINDOWEVENT">>
    /\ posted = 2
    /\ currentFrame = 1

\* ------------------------------------------------------------------------
\* framebufferResized
\* ------------------------------------------------------------------------
\* C40: framebufferResized is false in every reachable state, also after
\* the window has changed its size; so the test after present comes down to
\* the result of vkQueuePresentKHR, and recreateSwapchain is entered only from
\* the acquire with VK_ERROR_OUT_OF_DATE_KHR or from the present with
\* VK_ERROR_OUT_OF_DATE_KHR or VK_SUBOPTIMAL_KHR.
C40_FramebufferResizedNeverSet ==
    /\ [](framebufferResized = FALSE)
    /\ [](\A res \in PresentResults :
            PresentNeedsRecreate(res, framebufferResized)
              <=> res \in {VK_ERROR_OUT_OF_DATE_KHR, VK_SUBOPTIMAL_KHR})
    /\ [][(pc' = "recreateSwapchain" /\ pc # "recreateSwapchain")
          => (\/ pc = "acquire" /\ result' = VK_ERROR_OUT_OF_DATE_KHR
              \/ pc = "queuePresent"
                 /\ result' \in {VK_ERROR_OUT_OF_DATE_KHR, VK_SUBOPTIMAL_KHR})]_vars

\* the window has been minimized since the swapchain was built and a frame
\* has been presented with VK_SUCCESS: no recreation follows
C40_ResizedWindowPresentedWithoutRecreation ==
    /\ pc = "advance"
    /\ Returned("vkQueuePresentKHR", VK_SUCCESS)
    /\ drawable # InitialDrawable
    /\ builds = 1
    /\ ~framebufferResized

====
